---------------------------- MODULE Spec2Model ----------------------------
(***************************************************************************)
(* A model of the content-encryption layer of walrus-go: the PKCS7 padder, *)
(* the AES-CBC stream readers and cbcCipher, the single-shot AES-GCM       *)
(* engine gcmContentCipher, and the cipher factory.                        *)
(*                                                                         *)
(* Byte strings are sequences over 0..255.  The AES block function and the *)
(* GCM tag come from the Go standard library; they are modelled by a keyed *)
(* permutation of 16-byte blocks and by a keyed linear checksum (see       *)
(* BlockEncrypt and gcmTag).                                               *)
(***************************************************************************)
EXTENDS Integers, Sequences, FiniteSets, TLC

VARIABLES
    call,      \* the constructor call under way: [ctor, suite, key, iv]
    engine,    \* the engine the constructor returned, or NoEngine
    cerr,      \* the error the constructor returned, or Nil
    op,        \* the stream method running: "none", "EncryptStream", "DecryptStream"
    pc,        \* position inside the call
    src,       \* the source io.Reader: [data, err, eager, failed, step, gap, wait]
    dst,       \* the sink io.Writer: [out, kind, okWrites]
    reader,    \* cbcEncryptReader / cbcDecryptReader: [buf, size, chain]
    nonce,     \* the nonce of the GCM call under way
    ret,       \* what the stream method returned: Running, Nil, an error, or Panic
    plain,     \* harness: the plaintext given to EncryptStream
    input,     \* harness: the stream handed to DecryptStream
    tampered,  \* harness: TRUE once the test has flipped a bit of the encrypted bytes
    padder,    \* a direct call of PKCS7Padder: [fn, data, size, out, panic, done]
    unpads,    \* harness: the calls of Unpad by cbcDecryptReader so far: [data, eof, rest]
    ppc,       \* the producer goroutine of the pipe engine: "none", "read", "write", "done"
    pipeData,  \* io.Pipe: what is left of the pw.Write under way, NilBytes when there is none
    pipeClosed, \* io.Pipe: pw.Close() has run
    errCh,     \* the channel errCh
    perr,      \* producer: what it does once its pw.Write is through: Nil loops, EOF ends
    held,      \* consumer: the bytes io.Copy has read from pr and not yet written
    seals,     \* harness: the nonces given to gcm.Seal / gcm.Open in this call, in order
    sent,      \* harness: all the bytes the producer has given to pw.Write, in order
    firstErr,  \* harness: the first error a Read, an Open or a Write returned in this call
    client,    \* Client: [maxRetries, urls, variant]; urls are the endpoints' behaviours
    rpc,       \* doWithRetry: "none", "loop", "returned"
    urlIdx,    \* doWithRetry (per URL): the position of the range over urls, from 1
    attempt,   \* doWithRetry: attempt (per URL) or attemptCount (round robin)
    lastErr,   \* doWithRetry: lastErr
    resp,      \* doWithRetry: the response returned, [status, from]
    rerr,      \* doWithRetry: the error returned
    hits,      \* the requests each endpoint has received
    sleeps,    \* the calls of time.Sleep(RetryDelay)
    reqBytes,  \* the body the request came with, NilBytes when req.Body is nil
    reqBody,   \* req.Body, a reader
    sentBodies, \* harness: the body of newReq at each httpClient.Do, in order
    reqPath,   \* req.URL without scheme and host: the path and query of the request
    targets,   \* harness: where each httpClient.Do went, [host, path], in order
    store,     \* a call of Client.Store / StoreFromReader: [fn, data, reader, encrypt, opts,
               \* contentLength]
    spc,       \* position inside that call: "none", "call", "sending", "returned"
    contentLen, \* req.ContentLength of the request the call built
    sresult,   \* what the call returned: [resp, err], with reader for ReadToReader
    bodyClosed \* resp.Body.Close() has run on the response doWithRetry returned

\* the variables the stream engines and the constructors never touch
pipeVars == <<ppc, pipeData, pipeClosed, errCh, perr, held, seals, sent, firstErr>>

retryVars == <<client, rpc, urlIdx, attempt, lastErr, resp, rerr, hits, sleeps, reqBytes,
               reqBody, sentBodies, reqPath, targets>>

storeVars == <<store, spc, contentLen, sresult, bodyClosed>>

streamVars == <<call, engine, cerr, op, pc, src, dst, reader, nonce, ret, plain, input,
                tampered>>

others == <<padder, unpads, pipeVars, retryVars, storeVars>>

vars == <<streamVars, others>>

-----------------------------------------------------------------------------
(* Values. *)

Nil     == "nil"
Running == "running"
Panic   == "panic"
EOF     == "EOF"
ErrUnexpectedEOF == "unexpected EOF"
ErrShortWrite    == "short write"
ErrAuth          == "cipher: message authentication failed"
ErrKeySize       == "crypto/aes: invalid key size"

\* aes.BlockSize
BlockSize == 16
\* the nonce size and the tag size (Overhead) of cipher.NewGCM
NonceSize == 12
TagSize   == 16
\* bytes.MinRead: the least room bytes.Buffer.ReadFrom offers to Read
MinRead == 512
\* the buffer io.Copy allocates when neither side offers ReadFrom / WriteTo
CopyBufSize == 32768

Byte == 0..255

\* a nil []byte, which Go tells from an empty one; len(nil) = 0
NilBytes == <<-1>>

len(b) == IF b = NilBytes THEN 0 ELSE Len(b)

bytesOf(b) == IF b = NilBytes THEN <<>> ELSE b

Min(a, b) == IF a < b THEN a ELSE b

Take(s, n) == SubSeq(s, 1, Min(n, Len(s)))
Drop(s, n) == SubSeq(s, n + 1, Len(s))

\* the function f on 1..n as a sequence value
Seq0(f) == f \o <<>>

\* bytes.Repeat([]byte{b}, n), make([]byte, n) for b = 0
Repeat(b, n) == Seq0([i \in 1..n |-> b])

\* a byte string of length n that counts up from start, step by step
Ramp(n, start, step) == Seq0([i \in 1..n |-> (start + (i - 1) * step) % 256])

RECURSIVE XorBits(_, _)
XorBits(a, b) ==
    IF a = 0 THEN b
    ELSE IF b = 0 THEN a
    ELSE ((a + b) % 2) + 2 * XorBits(a \div 2, b \div 2)

XorTable == [a \in Byte |-> [b \in Byte |-> XorBits(a, b)]]

Xor(a, b) == XorTable[a][b]

XorBytes(x, y) == Seq0([i \in 1..Len(x) |-> Xor(x[i], y[i])])

RECURSIVE SumRange(_, _, _)
SumRange(s, lo, hi) ==
    IF lo > hi THEN 0
    ELSE IF lo = hi THEN s[lo]
    ELSE LET mid == (lo + hi) \div 2
         IN  (SumRange(s, lo, mid) + SumRange(s, mid + 1, hi)) % 256

SumBytes(s) == SumRange(s, 1, Len(s))

-----------------------------------------------------------------------------
(* crypto/aes and crypto/cipher, as far as the engines use them. *)

ValidKeyLen(n) == n \in {16, 24, 32}

\* aes.NewCipher(key): nil, or KeySizeError
aesNewCipher(key) == IF ValidKeyLen(len(key)) THEN Nil ELSE ErrKeySize

\* the key schedule, as far as the model's block function uses it
KeyMix(key) == (SumBytes(key) + Len(key)) % 256

\* Block.Encrypt: a keyed permutation of the 16-byte blocks
BlockEncrypt(mix, b) ==
    Seq0([i \in 1..BlockSize |-> (b[(i % BlockSize) + 1] + mix + i) % 256])

\* Block.Decrypt: its inverse
BlockDecrypt(mix, c) ==
    Seq0([j \in 1..BlockSize |->
            LET i == ((j + BlockSize - 2) % BlockSize) + 1
            IN  (c[i] + 512 - mix - i) % 256])

BlockAt(b, i) == SubSeq(b, (i - 1) * BlockSize + 1, i * BlockSize)

\* CBC encryption of the blocks lo..hi of b, chained on chain: each block is
\* combined with the ciphertext block before it and then encrypted.  The
\* range is halved rather than walked, which computes the same chain.
RECURSIVE cbcEncryptRange(_, _, _, _, _)
cbcEncryptRange(mix, chain, b, lo, hi) ==
    IF lo > hi THEN [out |-> <<>>, chain |-> chain]
    ELSE IF lo = hi
    THEN LET c == BlockEncrypt(mix, XorBytes(BlockAt(b, lo), chain))
         IN  [out |-> c, chain |-> c]
    ELSE LET mid   == (lo + hi) \div 2
             left  == cbcEncryptRange(mix, chain, b, lo, mid)
             right == cbcEncryptRange(mix, left.chain, b, mid + 1, hi)
         IN  [out |-> left.out \o right.out, chain |-> right.chain]

\* CBC decryption of the blocks lo..hi of b: each block is decrypted and then
\* combined with the ciphertext block before it
RECURSIVE cbcDecryptRange(_, _, _, _, _)
cbcDecryptRange(mix, chain, b, lo, hi) ==
    IF lo > hi THEN [out |-> <<>>, chain |-> chain]
    ELSE IF lo = hi
    THEN LET c == BlockAt(b, lo)
         IN  [out |-> XorBytes(BlockDecrypt(mix, c), chain), chain |-> c]
    ELSE LET mid   == (lo + hi) \div 2
             left  == cbcDecryptRange(mix, chain, b, lo, mid)
             right == cbcDecryptRange(mix, left.chain, b, mid + 1, hi)
         IN  [out |-> left.out \o right.out, chain |-> right.chain]

\* cbcEncrypter.CryptBlocks(dst, src): [out, chain], chain being the BlockMode's iv
cbcEncryptBlocks(key, chain, b) ==
    cbcEncryptRange(KeyMix(key), chain, b, 1, Len(b) \div BlockSize)

\* cbcDecrypter.CryptBlocks(dst, src)
cbcDecryptBlocks(key, chain, b) ==
    cbcDecryptRange(KeyMix(key), chain, b, 1, Len(b) \div BlockSize)

\* CryptBlocks panics on input that is not whole blocks, and on a dst shorter than src
CryptBlocksPanics(dataLen, b) == Len(b) % BlockSize # 0 \/ dataLen < Len(b)

\* cipher.AEAD of cipher.NewGCM.  Seal encrypts with a keystream made from the
\* key and the nonce and appends a tag; the tag is a keyed mask on the
\* exclusive-or of the 16-byte blocks of the ciphertext (GHASH is linear in
\* the ciphertext too), so it tells any change of a single bit.
gcmKeystream(mix, nc, n) ==
    LET nsum == SumBytes(nc)
    IN  Seq0([i \in 1..n |-> (mix + nsum + 7 * i) % 256])

\* the exclusive-or of c[j], c[j + 16], c[j + 32], ... for the blocks lo..hi
RECURSIVE gcmFoldRange(_, _, _, _)
gcmFoldRange(c, j, lo, hi) ==
    IF lo > hi THEN 0
    ELSE IF lo = hi
    THEN (IF (lo - 1) * TagSize + j > Len(c) THEN 0 ELSE c[(lo - 1) * TagSize + j])
    ELSE LET mid == (lo + hi) \div 2
         IN  Xor(gcmFoldRange(c, j, lo, mid), gcmFoldRange(c, j, mid + 1, hi))

gcmFold(c, j) == gcmFoldRange(c, j, 1, (Len(c) + TagSize - 1) \div TagSize)

gcmTag(mix, nc, c) ==
    LET nsum == SumBytes(nc)
    IN  Seq0([j \in 1..TagSize |->
                Xor(gcmFold(c, j), (mix + nsum + Len(c) + 11 * j) % 256)])

\* AEAD.Seal(nil, nonce, plaintext, nil)
gcmSeal(key, nc, p) ==
    LET c == XorBytes(p, gcmKeystream(KeyMix(key), nc, Len(p)))
    IN  c \o gcmTag(KeyMix(key), nc, c)

\* AEAD.Open(nil, nonce, ciphertext, nil)
gcmOpen(key, nc, ct) ==
    LET n == Len(ct) - TagSize
        c == SubSeq(ct, 1, n)
    IN  IF n < 0 \/ SubSeq(ct, n + 1, Len(ct)) # gcmTag(KeyMix(key), nc, c)
        THEN [err |-> ErrAuth, out |-> <<>>]
        ELSE [err |-> Nil, out |-> XorBytes(c, gcmKeystream(KeyMix(key), nc, n))]

-----------------------------------------------------------------------------
(* PKCS7Padder and getSliceSize. *)

\* Pad that fills with zero bytes
PadZeros(data, size) ==
    LET padding == BlockSize - (size % BlockSize)
    IN  data \o Repeat(0, padding)

\* Pad that adds nothing to data that already ends on a block boundary
PadUnlessAligned(data, size) ==
    LET padding == (BlockSize - (size % BlockSize)) % BlockSize
    IN  data \o Repeat(padding, padding)

Pad(data, size) ==
    LET padding == BlockSize - (size % BlockSize)
    IN  data \o Repeat(padding, padding)

\* Unpad that returns data as it came
UnpadKeepsPadding(data) == [panic |-> FALSE, out |-> data]

\* Unpad: data[:length-padding] panics when padding exceeds length
Unpad(data) ==
    LET length == Len(data) IN
    IF length = 0 THEN [panic |-> FALSE, out |-> <<>>]
    ELSE LET padding == data[length] IN
         IF padding > length THEN [panic |-> TRUE, out |-> <<>>]
         ELSE [panic |-> FALSE, out |-> Take(data, length - padding)]

\* getSliceSize that gives no room when the buffer holds less than two blocks
getSliceSizeNoFloor(blockSize, bufSize, dataSize) ==
    LET size == Min(bufSize, dataSize) IN
    IF size - (size % blockSize) - blockSize <= 0 THEN 0
    ELSE size - (size % blockSize) - blockSize

\* getSliceSize that holds no block back
getSliceSizeWholeBuffer(blockSize, bufSize, dataSize) ==
    LET size0 == IF bufSize > dataSize THEN dataSize ELSE bufSize
        size1 == size0 - (size0 % blockSize)
    IN  IF size1 <= 0 THEN blockSize ELSE size1

getSliceSize(blockSize, bufSize, dataSize) ==
    LET size0 == IF bufSize > dataSize THEN dataSize ELSE bufSize
        size1 == size0 - (size0 % blockSize) - blockSize
    IN  IF size1 <= 0 THEN blockSize ELSE size1

-----------------------------------------------------------------------------
(* The source and the sink handed to an engine.                            *)
(*                                                                         *)
(* A source holds the bytes it still has to deliver and the condition err  *)
(* that ends it: EOF for bytes.Reader, an error for a failing reader.  It  *)
(* delivers as much as the caller's buffer takes; an eager source reports  *)
(* err together with its last bytes, the others on the next Read.  The     *)
(* ending condition is reported on every later Read too.  A chunked source *)
(* delivers at most step bytes to a Read (step = 0: no limit).             *)
(*                                                                         *)
(* A sink is a bytes.Buffer (kind "Buffer", which io.Copy fills through    *)
(* ReadFrom and which never fails), or a plain io.Writer (kind "Writer")   *)
(* whose first okWrites calls of Write succeed and whose later ones return *)
(* io.ErrShortWrite, as failingWriter does; okWrites = -1 never fails.     *)
(*                                                                         *)
(* The field failed of either records that one of its calls has returned   *)
(* an error other than EOF; no engine reads it.                            *)
(***************************************************************************)

bytesReader(s) ==
    [data |-> s, err |-> EOF, eager |-> FALSE, failed |-> FALSE,
     step |-> 0, gap |-> 0, wait |-> 0]

failingSource(s, e, eager) ==
    [data |-> s, err |-> e, eager |-> eager, failed |-> FALSE,
     step |-> 0, gap |-> 0, wait |-> 0]

\* a reader, such as an HTTP response body, that delivers at most step bytes
\* to a Read and, with gap = 1, answers a Read with (0, nil) before each one
\* that delivers
chunkedReader(s, step, gap, eager) ==
    [data |-> s, err |-> EOF, eager |-> eager, failed |-> FALSE,
     step |-> step, gap |-> gap, wait |-> gap]

bytesBuffer == [out |-> <<>>, kind |-> "Buffer", okWrites |-> -1, failed |-> FALSE]

plainWriter(k) == [out |-> <<>>, kind |-> "Writer", okWrites |-> k, failed |-> FALSE]

\* src.Read(data) with len(data) = dataLen
srcRead(s, dataLen) ==
    LET room == IF s.step > 0 THEN Min(dataLen, s.step) ELSE dataLen
        n    == Min(room, Len(s.data))
        err  == IF Len(s.data) = 0 \/ (s.eager /\ n = Len(s.data)) THEN s.err ELSE Nil
    IN  IF s.wait > 0
        THEN [bytes |-> <<>>, err |-> Nil, src |-> [s EXCEPT !.wait = @ - 1]]
        ELSE [ bytes |-> Take(s.data, n),
               err   |-> err,
               src   |-> [s EXCEPT !.data = Drop(s.data, n),
                                   !.failed = @ \/ err \notin {Nil, EOF},
                                   !.wait = IF err = Nil THEN s.gap ELSE 0] ]

\* io.ReadFull(src, buf) with len(buf) = n: an error that arrives with the
\* byte that fills buf is dropped
readFull(s, n) ==
    IF Len(s.data) >= n
    THEN [bytes |-> Take(s.data, n), err |-> Nil,
          src |-> [s EXCEPT !.data = Drop(s.data, n),
                            !.failed = @ \/ (s.eager /\ Len(s.data) = n /\ s.err # EOF),
                            !.wait = s.gap]]
    ELSE [bytes |-> s.data,
          err   |-> IF s.err # EOF THEN s.err
                    ELSE IF Len(s.data) = 0 THEN EOF ELSE ErrUnexpectedEOF,
          src   |-> [s EXCEPT !.data = <<>>, !.failed = @ \/ s.err # EOF]]

\* io.ReadAll(src)
readAll(s) ==
    [bytes |-> s.data,
     err   |-> IF s.err = EOF THEN Nil ELSE s.err,
     src   |-> [s EXCEPT !.data = <<>>, !.failed = @ \/ s.err # EOF]]

\* dst.Write(p)
sinkWrite(d, p) ==
    IF d.okWrites = 0
    THEN [err |-> ErrShortWrite, dst |-> [d EXCEPT !.failed = TRUE]]
    ELSE [err |-> Nil,
          dst |-> [d EXCEPT !.out = @ \o p,
                            !.okWrites = IF @ > 0 THEN @ - 1 ELSE @]]

-----------------------------------------------------------------------------
(* cbcEncryptReader.Read and cbcDecryptReader.Read.  The result is what    *)
(* the call returns (out = data[:n], err), the reader and the source after *)
(* it, and whether it panicked.                                            *)

\* unpad is what the call gave to Unpad, NilBytes when it did not call it
ReadResult(out, err, r, s, panic) ==
    [out |-> out, err |-> err, reader |-> r, src |-> s, panic |-> panic,
     unpad |-> NilBytes]

\* Read that hands on what the source gave it while it has less than a block
cbcEncryptReaderReadNoCarry(key, r, s, dataLen) ==
    LET rd   == srcRead(s, dataLen)
        size == r.size + Len(rd.bytes)
        buf1 == r.buf \o rd.bytes
    IN
    IF rd.err = EOF THEN
        LET bl   == getSliceSize(BlockSize, Len(buf1), dataLen)
            n1   == Min(bl, Len(buf1))
            buf2 == Drop(buf1, n1)
            b    == IF Len(buf2) = 0
                    THEN Pad(Take(buf1, n1), size)
                    ELSE Take(buf1, n1) \o Repeat(0, bl - n1)
            err  == IF Len(buf2) = 0 THEN EOF ELSE Nil
            enc  == cbcEncryptBlocks(key, r.chain, b)
        IN  IF CryptBlocksPanics(dataLen, b)
            THEN ReadResult(<<>>, Nil, [buf |-> buf2, size |-> size, chain |-> r.chain],
                            rd.src, TRUE)
            ELSE ReadResult(enc.out, err,
                            [buf |-> buf2, size |-> size, chain |-> enc.chain],
                            rd.src, FALSE)
    ELSE IF rd.err # Nil THEN
        ReadResult(rd.bytes, rd.err, [r EXCEPT !.buf = buf1, !.size = size], rd.src, FALSE)
    ELSE IF Len(buf1) >= BlockSize THEN
        LET nBlocks == IF Len(buf1) > dataLen THEN dataLen \div BlockSize
                       ELSE Len(buf1) \div BlockSize
            b       == Take(buf1, nBlocks * BlockSize)
            enc     == cbcEncryptBlocks(key, r.chain, b)
        IN  IF nBlocks > 0
            THEN ReadResult(enc.out, Nil,
                            [buf |-> Drop(buf1, nBlocks * BlockSize), size |-> size,
                             chain |-> enc.chain],
                            rd.src, FALSE)
            ELSE ReadResult(rd.bytes, Nil, [r EXCEPT !.buf = buf1, !.size = size],
                            rd.src, FALSE)
    ELSE ReadResult(rd.bytes, Nil, [r EXCEPT !.buf = buf1, !.size = size], rd.src, FALSE)

cbcEncryptReaderRead(key, r, s, dataLen) ==
    LET rd   == srcRead(s, dataLen)
        size == r.size + Len(rd.bytes)
        buf1 == r.buf \o rd.bytes
    IN
    IF rd.err = EOF THEN
        LET bl   == getSliceSize(BlockSize, Len(buf1), dataLen)
            n1   == Min(bl, Len(buf1))
            buf2 == Drop(buf1, n1)
            b    == IF Len(buf2) = 0
                    THEN Pad(Take(buf1, n1), size)
                    ELSE Take(buf1, n1) \o Repeat(0, bl - n1)
            err  == IF Len(buf2) = 0 THEN EOF ELSE Nil
            enc  == cbcEncryptBlocks(key, r.chain, b)
        IN  IF CryptBlocksPanics(dataLen, b)
            THEN ReadResult(<<>>, Nil, [buf |-> buf2, size |-> size, chain |-> r.chain],
                            rd.src, TRUE)
            ELSE ReadResult(enc.out, err,
                            [buf |-> buf2, size |-> size, chain |-> enc.chain],
                            rd.src, FALSE)
    ELSE IF rd.err # Nil THEN
        ReadResult(rd.bytes, rd.err, [r EXCEPT !.buf = buf1, !.size = size], rd.src, FALSE)
    ELSE IF Len(buf1) >= BlockSize THEN
        LET nBlocks == IF Len(buf1) > dataLen THEN dataLen \div BlockSize
                       ELSE Len(buf1) \div BlockSize
            b       == Take(buf1, nBlocks * BlockSize)
            enc     == cbcEncryptBlocks(key, r.chain, b)
        IN  IF nBlocks > 0
            THEN ReadResult(enc.out, Nil,
                            [buf |-> Drop(buf1, nBlocks * BlockSize), size |-> size,
                             chain |-> enc.chain],
                            rd.src, FALSE)
            ELSE ReadResult(rd.bytes, Nil, [r EXCEPT !.buf = buf1, !.size = size],
                            rd.src, FALSE)
    ELSE ReadResult(<<>>, Nil, [r EXCEPT !.buf = buf1, !.size = size], rd.src, FALSE)

cbcDecryptReaderRead(key, r, s, dataLen) ==
    LET rd   == srcRead(s, dataLen)
        buf1 == r.buf \o rd.bytes
    IN
    IF rd.err = EOF THEN
        LET bl   == getSliceSize(BlockSize, Len(buf1), dataLen)
            n1   == Min(bl, Len(buf1))
            buf2 == Drop(buf1, n1)
            b    == Take(buf1, n1) \o Repeat(0, bl - n1)
            dec  == cbcDecryptBlocks(key, r.chain, b)
            data == IF n1 > 0 THEN Take(dec.out, n1) ELSE <<>>
            r2   == [r EXCEPT !.buf = buf2, !.chain = IF n1 > 0 THEN dec.chain ELSE @]
            un   == Unpad(data)
        IN  IF n1 > 0 /\ CryptBlocksPanics(dataLen, b)
            THEN ReadResult(<<>>, Nil, [r EXCEPT !.buf = buf2], rd.src, TRUE)
            ELSE IF Len(buf2) # 0
            THEN ReadResult(data, Nil, r2, rd.src, FALSE)
            ELSE IF un.panic
            THEN [ReadResult(<<>>, Nil, r2, rd.src, TRUE) EXCEPT !.unpad = data]
            ELSE [ReadResult(un.out, EOF, r2, rd.src, FALSE) EXCEPT !.unpad = data]
    ELSE IF rd.err # Nil THEN
        ReadResult(rd.bytes, rd.err, [r EXCEPT !.buf = buf1], rd.src, FALSE)
    ELSE IF Len(buf1) >= BlockSize THEN
        LET nBlocks == (IF Len(buf1) > dataLen THEN dataLen \div BlockSize
                        ELSE Len(buf1) \div BlockSize) - BlockSize
            b       == Take(buf1, nBlocks * BlockSize)
            dec     == cbcDecryptBlocks(key, r.chain, b)
        IN  IF nBlocks > 0
            THEN ReadResult(dec.out, Nil,
                            [r EXCEPT !.buf = Drop(buf1, nBlocks * BlockSize),
                                      !.chain = dec.chain],
                            rd.src, FALSE)
            ELSE ReadResult(<<>>, Nil, [r EXCEPT !.buf = buf1], rd.src, FALSE)
    ELSE ReadResult(rd.bytes, Nil, [r EXCEPT !.buf = buf1], rd.src, FALSE)

-----------------------------------------------------------------------------
(* io.Copy(dst, reader): one turn of its loop.  bytes.Buffer.ReadFrom and  *)
(* the generic loop both append data[:n] and then look at the error; the   *)
(* generic loop stops at a failed Write.                                   *)

\* how far past bytes.MinRead the room a bytes.Buffer offers is let to go
RoomSlack == 8

\* len(data) of the Read calls io.Copy makes for sink d
BufferRooms == {MinRead, MinRead + RoomSlack}

ReadLens(d) == IF d.kind = "Buffer" THEN BufferRooms ELSE {CopyBufSize}

copyTurn(rr, d) ==
    LET w    == IF Len(rr.out) > 0 THEN sinkWrite(d, rr.out) ELSE [err |-> Nil, dst |-> d]
        after == IF rr.err = EOF THEN Nil ELSE IF rr.err # Nil THEN rr.err ELSE Running
    IN  IF rr.panic THEN [ret |-> Panic, dst |-> d]
        ELSE IF w.err # Nil THEN [ret |-> w.err, dst |-> w.dst]
        ELSE [ret |-> after, dst |-> w.dst]

-----------------------------------------------------------------------------
(* cbcCipher.EncryptStream and cbcCipher.DecryptStream up to io.Copy. *)

NoReader == [buf |-> <<>>, size |-> 0, chain |-> <<>>]

cbcEncryptStreamBegin(c, s, d) ==
    LET w == sinkWrite(d, bytesOf(c.iv)) IN
    IF aesNewCipher(c.key) # Nil
    THEN [ret |-> ErrKeySize, dst |-> d, reader |-> NoReader]
    ELSE IF w.err # Nil
    THEN [ret |-> w.err, dst |-> w.dst, reader |-> NoReader]
    ELSE IF Len(bytesOf(c.iv)) # BlockSize        \* cipher.NewCBCEncrypter panics
    THEN [ret |-> Panic, dst |-> w.dst, reader |-> NoReader]
    ELSE [ret |-> Running, dst |-> w.dst,
          reader |-> [buf |-> <<>>, size |-> 0, chain |-> c.iv]]

\* DecryptStream that does not look at what io.ReadFull returned: iv keeps
\* the zeros of make([]byte, 16) where nothing was read
cbcDecryptStreamBeginIgnoresShortRead(c, s) ==
    LET rf == readFull(s, BlockSize) IN
    IF aesNewCipher(c.key) # Nil
    THEN [ret |-> ErrKeySize, src |-> s, reader |-> NoReader]
    ELSE [ret |-> Running, src |-> rf.src,
          reader |-> [buf |-> <<>>, size |-> 0,
                      chain |-> rf.bytes \o Repeat(0, BlockSize - Len(rf.bytes))]]

\* DecryptStream that reads the IV off the stream and decrypts with c.iv
cbcDecryptStreamBeginEngineIV(c, s) ==
    LET rf == readFull(s, BlockSize) IN
    IF aesNewCipher(c.key) # Nil
    THEN [ret |-> ErrKeySize, src |-> s, reader |-> NoReader]
    ELSE IF rf.err # Nil
    THEN [ret |-> rf.err, src |-> rf.src, reader |-> NoReader]
    ELSE [ret |-> Running, src |-> rf.src,
          reader |-> [buf |-> <<>>, size |-> 0, chain |-> c.iv]]

cbcDecryptStreamBegin(c, s) ==
    LET rf == readFull(s, BlockSize) IN
    IF aesNewCipher(c.key) # Nil
    THEN [ret |-> ErrKeySize, src |-> s, reader |-> NoReader]
    ELSE IF rf.err # Nil
    THEN [ret |-> rf.err, src |-> rf.src, reader |-> NoReader]
    ELSE [ret |-> Running, src |-> rf.src,
          reader |-> [buf |-> <<>>, size |-> 0, chain |-> rf.bytes]]

-----------------------------------------------------------------------------
(* The constructors. *)

AES256GCM == "AES256GCM"
AES256CBC == "AES256CBC"

ErrUnsupportedCipherSuite == "unsupported cipher suite"
ErrInvalidKeySize         == "invalid key size"
ErrIVLength               == "IV length must equal block size"
ErrKeyNil                 == "key cannot be nil"

NoEngine == [type |-> "none", key |-> NilBytes, iv |-> NilBytes, gcm |-> FALSE]

Built(e) == [engine |-> e, err |-> Nil]
Failed(e) == [engine |-> NoEngine, err |-> e]

\* NewCBCCipher that stores what it is given
NewCBCCipherUnchecked(key, iv) ==
    Built([type |-> "cbcCipher", key |-> key, iv |-> iv, gcm |-> FALSE])

\* NewCBCCipher that looks at the whole key before it looks at the IV
NewCBCCipherKeyFirst(key, iv) ==
    IF key = NilBytes \/ ~ValidKeyLen(Len(key)) THEN Failed(ErrInvalidKeySize)
    ELSE IF iv = NilBytes \/ Len(iv) # BlockSize THEN Failed(ErrIVLength)
    ELSE Built([type |-> "cbcCipher", key |-> key, iv |-> iv, gcm |-> FALSE])

NewCBCCipher(key, iv) ==
    IF key = NilBytes THEN Failed(ErrInvalidKeySize)
    ELSE IF iv = NilBytes THEN Failed(ErrIVLength)
    ELSE IF ~ValidKeyLen(Len(key)) THEN Failed(ErrInvalidKeySize)
    ELSE IF Len(iv) # BlockSize THEN Failed(ErrIVLength)
    ELSE Built([type |-> "cbcCipher", key |-> key, iv |-> iv, gcm |-> FALSE])

\* the NewCBCCipher of the StreamCipher interface: it keeps what it is given
NewStreamCBCCipher(key, iv) ==
    Built([type |-> "cbcCipher", key |-> key, iv |-> iv, gcm |-> FALSE])

\* the constructor that stores the key and builds no gcm
NewGCMCipher(key) ==
    Built([type |-> "gcmContentCipher", key |-> key, iv |-> NilBytes, gcm |-> FALSE])

NewGCMContentCipher(key) ==
    IF key = NilBytes THEN Failed(ErrKeyNil)
    ELSE IF ~ValidKeyLen(Len(key))
    THEN Failed(ErrInvalidKeySize \o ": " \o ToString(Len(key)))
    ELSE Built([type |-> "gcmContentCipher", key |-> key, iv |-> NilBytes, gcm |-> TRUE])

NewCipher(suite, key, iv) ==
    IF suite = AES256GCM THEN NewGCMContentCipher(key)
    ELSE IF suite = AES256CBC THEN NewCBCCipher(key, iv)
    ELSE Failed(ErrUnsupportedCipherSuite)

-----------------------------------------------------------------------------
(* The inputs of the CBC runs. *)

\* plaintexts of every length up to MaxSmallLen, and a few that take several
\* turns of io.Copy
MaxSmallLen == 33
\* a plain io.Writer fails at its first Write, or after up to MaxOkWrites
MaxOkWrites == 1

LargeLens == {MinRead - 1, MinRead, MinRead + BlockSize + 1, 2 * MinRead + BlockSize + 1}

PlainLens == (0..MaxSmallLen) \cup LargeLens

Plaintexts == {Repeat(1, n) : n \in PlainLens} \cup {Ramp(n, 7, 5) : n \in PlainLens}

CBCEngines ==
    { NewCBCCipher(Ramp(16, 1, 3), Repeat(0, BlockSize)).engine,
      NewCBCCipher(Ramp(24, 2, 5), Ramp(BlockSize, 250, 1)).engine,
      NewCBCCipher(Repeat(0, 32), Repeat(0, BlockSize)).engine }

Sinks == {bytesBuffer} \cup {plainWriter(k) : k \in -1..MaxOkWrites}

\* the ways a source delivers the bytes x: bytes.Reader, and readers that end
\* in an error instead of EOF
SourcesOf(x) ==
    {bytesReader(x)} \cup {failingSource(x, ErrUnexpectedEOF, e) : e \in BOOLEAN}

\* streams handed to DecryptStream that no EncryptStream produced: shorter
\* than a header, a bare header, whole blocks whose last plaintext byte is any
\* of a few values, the 32 zero bytes of TestCBCStreamErrors, and a stream
\* that does not end on a block boundary
LastBytes == {0, 1, BlockSize, BlockSize + 1, 255}

RawIV == Ramp(BlockSize, 9, 2)

RawStreams(c) ==
    {Ramp(n, 3, 7) : n \in 0..BlockSize}
    \cup { RawIV \o cbcEncryptBlocks(c.key, RawIV, Ramp(k * BlockSize - 1, 5, 1) \o <<l>>).out
             : k \in 1..2, l \in LastBytes }
    \cup { Repeat(0, 2 * BlockSize), Ramp(2 * BlockSize + 4, 3, 7) }

-----------------------------------------------------------------------------
(* The CBC runs: a test encrypts a plaintext and decrypts what came out    *)
(* (TestCBCCipher, TestLargeFileEncryption), or decrypts a stream of its   *)
(* own (TestCBCStreamErrors), with sources and sinks that may fail.        *)

\* no direct call of the padder
NoPadCall == [fn |-> "none", data |-> <<>>, size |-> 0, out |-> <<>>, panic |-> FALSE,
              done |-> FALSE]

\* no goroutine, no pipe
PipeIdle ==
    /\ ppc = "none"
    /\ pipeData = NilBytes
    /\ pipeClosed = FALSE
    /\ errCh = <<>>
    /\ perr = Nil
    /\ held = <<>>
    /\ seals = <<>>
    /\ sent = <<>>
    /\ firstErr = Nil

\* no Client, no call of doWithRetry
RetryIdle ==
    /\ client = [maxRetries |-> 0, urls |-> <<>>, variant |-> "none"]
    /\ rpc = "none"
    /\ urlIdx = 0
    /\ attempt = 0
    /\ lastErr = Nil
    /\ resp = [status |-> 0, from |-> 0]
    /\ rerr = Nil
    /\ hits = <<>>
    /\ sleeps = 0
    /\ reqBytes = NilBytes
    /\ reqBody = bytesReader(<<>>)
    /\ sentBodies = <<>>
    /\ reqPath = ""
    /\ targets = <<>>

StoreIdle ==
    /\ store = [fn |-> "none"]
    /\ spc = "none"
    /\ contentLen = 0
    /\ sresult = [resp |-> [set |-> FALSE], err |-> Nil]
    /\ bodyClosed = FALSE

\* no call of the padder, no goroutine, no pipe, no Client
OthersIdle ==
    /\ padder = NoPadCall
    /\ unpads = <<>>
    /\ PipeIdle
    /\ RetryIdle
    /\ StoreIdle


NoCall == [ctor |-> "none", suite |-> "", key |-> NilBytes, iv |-> NilBytes]

InitCBC ==
    /\ engine \in CBCEngines
    /\ call = [ctor |-> "NewCBCCipher", suite |-> AES256CBC,
               key |-> engine.key, iv |-> engine.iv]
    /\ cerr = Nil
    /\ op = "none"
    /\ pc = "idle"
    /\ src = bytesReader(<<>>)
    /\ dst = bytesBuffer
    /\ reader = NoReader
    /\ nonce = NilBytes
    /\ ret = Running
    /\ plain = NilBytes
    /\ input = NilBytes
    /\ tampered = FALSE
    /\ OthersIdle

AfterTurn(r) == IF r = Running THEN "copy" ELSE "returned"

CBCEncryptStream ==
    /\ pc = "idle"
    /\ engine.type = "cbcCipher"
    /\ \E P \in Plaintexts : \E s \in SourcesOf(P) : \E d \in Sinks :
         LET b == cbcEncryptStreamBegin(engine, s, d) IN
         /\ op' = "EncryptStream"
         /\ plain' = P
         /\ src' = s
         /\ dst' = b.dst
         /\ reader' = b.reader
         /\ ret' = b.ret
         /\ pc' = AfterTurn(b.ret)
    /\ UNCHANGED <<call, engine, cerr, nonce, input, tampered>>
    /\ UNCHANGED others

CBCEncryptCopy ==
    /\ pc = "copy"
    /\ op = "EncryptStream"
    /\ engine.type = "cbcCipher"
    /\ \E dataLen \in ReadLens(dst) :
         LET rr == cbcEncryptReaderRead(engine.key, reader, src, dataLen)
             t  == copyTurn(rr, dst)
         IN  /\ reader' = rr.reader
             /\ src' = rr.src
             /\ dst' = t.dst
             /\ ret' = t.ret
             /\ pc' = AfterTurn(t.ret)
    /\ UNCHANGED <<call, engine, cerr, op, nonce, plain, input, tampered>>
    /\ UNCHANGED others

\* DecryptStream(bytes.NewReader(encrypted.Bytes()), &decrypted)
CBCDecryptEncrypted ==
    /\ pc = "returned"
    /\ op = "EncryptStream"
    /\ engine.type = "cbcCipher"
    /\ ret = Nil
    /\ \E d \in Sinks :
         LET b == cbcDecryptStreamBegin(engine, bytesReader(dst.out)) IN
         /\ op' = "DecryptStream"
         /\ input' = dst.out
         /\ src' = b.src
         /\ dst' = d
         /\ reader' = b.reader
         /\ ret' = b.ret
         /\ pc' = AfterTurn(b.ret)
    /\ UNCHANGED <<call, engine, cerr, nonce, plain, tampered>>
    /\ UNCHANGED others

CBCDecryptStream ==
    /\ pc = "idle"
    /\ engine.type = "cbcCipher"
    /\ \E x \in RawStreams(engine) : \E s \in SourcesOf(x) : \E d \in Sinks :
         LET b == cbcDecryptStreamBegin(engine, s) IN
         /\ op' = "DecryptStream"
         /\ input' = x
         /\ src' = b.src
         /\ dst' = d
         /\ reader' = b.reader
         /\ ret' = b.ret
         /\ pc' = AfterTurn(b.ret)
    /\ UNCHANGED <<call, engine, cerr, nonce, plain, tampered>>
    /\ UNCHANGED others

CBCDecryptCopy ==
    /\ pc = "copy"
    /\ op = "DecryptStream"
    /\ engine.type = "cbcCipher"
    /\ \E dataLen \in ReadLens(dst) :
         LET rr == cbcDecryptReaderRead(engine.key, reader, src, dataLen)
             t  == copyTurn(rr, dst)
         IN  /\ reader' = rr.reader
             /\ src' = rr.src
             /\ dst' = t.dst
             /\ ret' = t.ret
             /\ pc' = AfterTurn(t.ret)
             /\ unpads' = IF rr.unpad = NilBytes THEN unpads
                          ELSE Append(unpads,
                                      [data |-> rr.unpad,
                                       eof  |-> srcRead(src, dataLen).err = EOF,
                                       rest |-> Len(rr.src.data) + Len(rr.reader.buf)])
    /\ UNCHANGED <<call, engine, cerr, op, nonce, plain, input, tampered>>
    /\ UNCHANGED <<padder, pipeVars, retryVars, storeVars>>

NextCBC ==
    \/ CBCEncryptStream
    \/ CBCEncryptCopy
    \/ CBCDecryptEncrypted
    \/ CBCDecryptStream
    \/ CBCDecryptCopy

SpecCBC == InitCBC /\ [][NextCBC]_vars

-----------------------------------------------------------------------------
(* gcmContentCipher.EncryptStream and gcmContentCipher.DecryptStream, each *)
(* in two steps: up to the nonce, and the rest.                            *)

ErrGCMNotInitialized == "gcm cipher is not initialized"

gcmEncryptStreamBegin(c, n, d) ==
    LET w == sinkWrite(d, n) IN
    IF ~c.gcm THEN [ret |-> ErrGCMNotInitialized, dst |-> d]
    ELSE IF w.err # Nil THEN [ret |-> w.err, dst |-> w.dst]
    ELSE [ret |-> Running, dst |-> w.dst]

\* EncryptStream that does not look at the error of io.ReadAll
gcmEncryptStreamSealIgnoresReadError(c, n, s, d) ==
    LET ra == readAll(s)
        w  == sinkWrite(d, gcmSeal(c.key, n, ra.bytes))
    IN  [ret |-> w.err, src |-> ra.src, dst |-> w.dst]

gcmEncryptStreamSeal(c, n, s, d) ==
    LET ra == readAll(s)
        w  == sinkWrite(d, gcmSeal(c.key, n, ra.bytes))
    IN  IF ra.err # Nil THEN [ret |-> ra.err, src |-> ra.src, dst |-> d]
        ELSE [ret |-> w.err, src |-> ra.src, dst |-> w.dst]

\* DecryptStream that takes a block, not gcm.NonceSize() bytes, for the nonce
gcmDecryptStreamBeginBlockNonce(c, s) ==
    LET rf == readFull(s, BlockSize) IN
    IF ~c.gcm THEN [ret |-> Panic, src |-> s, nonce |-> NilBytes]
    ELSE IF rf.err # Nil THEN [ret |-> rf.err, src |-> rf.src, nonce |-> NilBytes]
    ELSE [ret |-> Running, src |-> rf.src, nonce |-> rf.bytes]

\* c.gcm.NonceSize() on a gcmContentCipher without gcm is a nil dereference
gcmDecryptStreamBegin(c, s) ==
    LET rf == readFull(s, NonceSize) IN
    IF ~c.gcm THEN [ret |-> Panic, src |-> s, nonce |-> NilBytes]
    ELSE IF rf.err # Nil THEN [ret |-> rf.err, src |-> rf.src, nonce |-> NilBytes]
    ELSE [ret |-> Running, src |-> rf.src, nonce |-> rf.bytes]

\* DecryptStream that does not look at the error of gcm.Open
gcmDecryptStreamOpenIgnoresAuth(c, n, s, d) ==
    LET ra == readAll(s)
        o  == gcmOpen(c.key, n, ra.bytes)
        w  == sinkWrite(d, o.out)
    IN  IF ra.err # Nil THEN [ret |-> ra.err, src |-> ra.src, dst |-> d]
        ELSE [ret |-> w.err, src |-> ra.src, dst |-> w.dst]

gcmDecryptStreamOpen(c, n, s, d) ==
    LET ra == readAll(s)
        o  == gcmOpen(c.key, n, ra.bytes)
        w  == sinkWrite(d, o.out)
    IN  IF ra.err # Nil THEN [ret |-> ra.err, src |-> ra.src, dst |-> d]
        ELSE IF o.err # Nil THEN [ret |-> o.err, src |-> ra.src, dst |-> d]
        ELSE [ret |-> w.err, src |-> ra.src, dst |-> w.dst]

-----------------------------------------------------------------------------
(* The GCM runs: a test encrypts a plaintext and decrypts what came out    *)
(* (TestGCMCipher), after flipping one bit of it                           *)
(* (TestGCMAuthenticationAndTampering), or decrypts a stream of its own    *)
(* (TestGCMStreamErrors).                                                  *)

\* the test flips bits of the encrypted forms of plaintexts this long at most,
\* and of those one byte longer than a block
MaxTamperLen == 2

TamperLens == (0..MaxTamperLen) \cup {BlockSize + 1}

GCMEngines ==
    { NewGCMContentCipher(Ramp(16, 1, 3)).engine,
      NewGCMContentCipher(Ramp(24, 2, 5)).engine,
      NewGCMContentCipher(Repeat(0, 32)).engine }

\* what rand.Read may put into the nonce
Nonces == {Repeat(0, NonceSize), Ramp(NonceSize, 40, 9)}

RawGCMStreams ==
    {Ramp(n, 3, 7) : n \in 0..(NonceSize + TagSize + 1)} \cup {Repeat(0, 2 * BlockSize)}

\* b with bit k flipped
FlipBit(b, k) == Xor(b, 2 ^ k)

InitGCM ==
    /\ engine \in GCMEngines
    /\ call = [ctor |-> "NewGCMContentCipher", suite |-> AES256GCM,
               key |-> engine.key, iv |-> NilBytes]
    /\ cerr = Nil
    /\ op = "none"
    /\ pc = "idle"
    /\ src = bytesReader(<<>>)
    /\ dst = bytesBuffer
    /\ reader = NoReader
    /\ nonce = NilBytes
    /\ ret = Running
    /\ plain = NilBytes
    /\ input = NilBytes
    /\ tampered = FALSE
    /\ OthersIdle

GCMEncryptStream ==
    /\ pc = "idle"
    /\ engine.type = "gcmContentCipher"
    /\ \E P \in Plaintexts : \E s \in SourcesOf(P) : \E d \in Sinks : \E n \in Nonces :
         LET b == gcmEncryptStreamBegin(engine, n, d) IN
         /\ op' = "EncryptStream"
         /\ plain' = P
         /\ src' = s
         /\ dst' = b.dst
         /\ nonce' = n
         /\ ret' = b.ret
         /\ pc' = IF b.ret = Running THEN "seal" ELSE "returned"
    /\ UNCHANGED <<call, engine, cerr, reader, input, tampered>>
    /\ UNCHANGED others

GCMEncryptSeal ==
    /\ pc = "seal"
    /\ engine.type = "gcmContentCipher"
    /\ LET e == gcmEncryptStreamSeal(engine, nonce, src, dst) IN
         /\ src' = e.src
         /\ dst' = e.dst
         /\ ret' = e.ret
         /\ pc' = "returned"
    /\ UNCHANGED <<call, engine, cerr, op, reader, nonce, plain, input, tampered>>
    /\ UNCHANGED others

\* encryptedData[i] ^= 1 << k, somewhere in the sealed ciphertext or the tag
GCMTamper ==
    /\ pc = "returned"
    /\ op = "EncryptStream"
    /\ engine.type = "gcmContentCipher"
    /\ ret = Nil
    /\ ~tampered
    /\ dst.kind = "Buffer"
    /\ Len(plain) \in TamperLens
    /\ \E i \in (NonceSize + 1)..Len(dst.out) : \E k \in 0..7 :
         dst' = [dst EXCEPT !.out[i] = FlipBit(@, k)]
    /\ tampered' = TRUE
    /\ UNCHANGED <<call, engine, cerr, op, pc, src, reader, nonce, ret, plain, input>>
    /\ UNCHANGED others

\* DecryptStream(bytes.NewReader(encrypted.Bytes()), &decrypted)
GCMDecryptEncrypted ==
    /\ pc = "returned"
    /\ op = "EncryptStream"
    /\ engine.type = "gcmContentCipher"
    /\ ret = Nil
    /\ \E d \in Sinks :
         LET b == gcmDecryptStreamBegin(engine, bytesReader(dst.out)) IN
         /\ op' = "DecryptStream"
         /\ input' = dst.out
         /\ src' = b.src
         /\ dst' = d
         /\ nonce' = b.nonce
         /\ ret' = b.ret
         /\ pc' = IF b.ret = Running THEN "open" ELSE "returned"
    /\ UNCHANGED <<call, engine, cerr, reader, plain, tampered>>
    /\ UNCHANGED others

GCMDecryptStream ==
    /\ pc = "idle"
    /\ engine.type = "gcmContentCipher"
    /\ \E x \in RawGCMStreams : \E s \in SourcesOf(x) : \E d \in Sinks :
         LET b == gcmDecryptStreamBegin(engine, s) IN
         /\ op' = "DecryptStream"
         /\ input' = x
         /\ src' = b.src
         /\ dst' = d
         /\ nonce' = b.nonce
         /\ ret' = b.ret
         /\ pc' = IF b.ret = Running THEN "open" ELSE "returned"
    /\ UNCHANGED <<call, engine, cerr, reader, plain, tampered>>
    /\ UNCHANGED others

GCMDecryptOpen ==
    /\ pc = "open"
    /\ engine.type = "gcmContentCipher"
    /\ LET e == gcmDecryptStreamOpen(engine, nonce, src, dst) IN
         /\ src' = e.src
         /\ dst' = e.dst
         /\ ret' = e.ret
         /\ pc' = "returned"
    /\ UNCHANGED <<call, engine, cerr, op, reader, nonce, plain, input, tampered>>
    /\ UNCHANGED others

NextGCM ==
    \/ GCMEncryptStream
    \/ GCMEncryptSeal
    \/ GCMTamper
    \/ GCMDecryptEncrypted
    \/ GCMDecryptStream
    \/ GCMDecryptOpen

SpecGCM == InitGCM /\ [][NextGCM]_vars

-----------------------------------------------------------------------------
(* Both engines. *)

Init == InitCBC \/ InitGCM

Next == NextCBC \/ NextGCM

Spec == Init /\ [][Next]_vars

-----------------------------------------------------------------------------
(* The constructor calls: a caller builds an engine with NewCipher,        *)
(* NewCBCCipher or NewGCMContentCipher from any suite, key and IV, and     *)
(* starts EncryptStream on what it got.                                    *)

\* keys of every length up to MaxKeyLen and IVs of every length up to
\* MaxIVLen, nil included
MaxKeyLen == 33
MaxIVLen == 17

KeyArgs == {NilBytes} \cup {Repeat(0, n) : n \in 0..MaxKeyLen}
IVArgs  == {NilBytes} \cup {Repeat(0, n) : n \in 0..MaxIVLen}

Suites == {AES256GCM, AES256CBC, "XYZ", "invalid", "AES128CBC"}

Calls ==
    [ctor : {"NewCipher"}, suite : Suites, key : KeyArgs, iv : IVArgs]
    \cup [ctor : {"NewCBCCipher"}, suite : {AES256CBC}, key : KeyArgs, iv : IVArgs]
    \cup [ctor : {"NewGCMContentCipher"}, suite : {AES256GCM}, key : KeyArgs,
          iv : {NilBytes}]
    \cup [ctor : {"StreamCipher.NewCBCCipher"}, suite : {""}, key : KeyArgs, iv : IVArgs]
    \cup [ctor : {"NewGCMCipher"}, suite : {""}, key : KeyArgs, iv : {NilBytes}]

InitFactory ==
    /\ call \in Calls
    /\ engine = NoEngine
    /\ cerr = Nil
    /\ op = "none"
    /\ pc = "new"
    /\ src = bytesReader(<<>>)
    /\ dst = bytesBuffer
    /\ reader = NoReader
    /\ nonce = NilBytes
    /\ ret = Running
    /\ plain = NilBytes
    /\ input = NilBytes
    /\ tampered = FALSE
    /\ OthersIdle

Return(r) ==
    /\ engine' = r.engine
    /\ cerr' = r.err
    /\ pc' = "idle"
    /\ UNCHANGED <<call, op, src, dst, reader, nonce, ret, plain, input, tampered>>
    /\ UNCHANGED others

CallNewCipher ==
    /\ pc = "new"
    /\ call.ctor = "NewCipher"
    /\ Return(NewCipher(call.suite, call.key, call.iv))

CallNewCBCCipher ==
    /\ pc = "new"
    /\ call.ctor = "NewCBCCipher"
    /\ Return(NewCBCCipher(call.key, call.iv))

CallNewGCMContentCipher ==
    /\ pc = "new"
    /\ call.ctor = "NewGCMContentCipher"
    /\ Return(NewGCMContentCipher(call.key))

CallNewStreamCBCCipher ==
    /\ pc = "new"
    /\ call.ctor = "StreamCipher.NewCBCCipher"
    /\ Return(NewStreamCBCCipher(call.key, call.iv))

CallNewGCMCipher ==
    /\ pc = "new"
    /\ call.ctor = "NewGCMCipher"
    /\ Return(NewGCMCipher(call.key))

\* the caller encrypts with the engine it got
UseEngine ==
    /\ pc = "idle"
    /\ engine.type # "none"
    /\ \E P \in {<<>>, Ramp(BlockSize + 1, 7, 5)} : \E d \in Sinks : \E n \in Nonces :
         LET b == IF engine.type = "cbcCipher"
                  THEN cbcEncryptStreamBegin(engine, bytesReader(P), d)
                  ELSE gcmEncryptStreamBegin(engine, n, d) @@ [reader |-> NoReader]
         IN  /\ op' = "EncryptStream"
             /\ plain' = P
             /\ src' = bytesReader(P)
             /\ dst' = b.dst
             /\ reader' = b.reader
             /\ nonce' = IF engine.type = "cbcCipher" THEN NilBytes ELSE n
             /\ ret' = b.ret
             /\ pc' = IF b.ret # Running THEN "returned"
                      ELSE IF engine.type = "cbcCipher" THEN "copy" ELSE "seal"
    /\ UNCHANGED <<call, engine, cerr, input, tampered>>
    /\ UNCHANGED others

NextFactory ==
    \/ CallNewCipher
    \/ CallNewCBCCipher
    \/ CallNewGCMContentCipher
    \/ CallNewStreamCBCCipher
    \/ CallNewGCMCipher
    \/ UseEngine

SpecFactory == InitFactory /\ [][NextFactory]_vars

-----------------------------------------------------------------------------
(* cbcCipher on sources that split their bytes across Read calls, as the   *)
(* HTTP response body that Client.Read decrypts from does.                 *)

\* plaintexts of up to MaxChunkLen bytes around the block boundaries, and one
\* that fills more than the sixteen blocks cbcDecryptReader holds back
MaxChunkLen == 33

ChunkLens ==
    {0, 1, BlockSize - 1, BlockSize, BlockSize + 1, 2 * BlockSize, MaxChunkLen,
     BlockSize * BlockSize + 2 * BlockSize + 3}

\* bytes a source delivers to one Read at most; 0 is no limit
Steps == {0, 1, 5, BlockSize, BlockSize + 1}

ChunkedSources(x) ==
    {chunkedReader(x, st, g, e) : st \in Steps, g \in {0, 1}, e \in BOOLEAN}

\* sinks that take every Write
GoodSinks == {bytesBuffer, plainWriter(-1)}

ChunkEngines ==
    { NewCBCCipher(Ramp(16, 1, 3), Repeat(0, BlockSize)).engine,
      NewCBCCipher(Ramp(32, 2, 5), Ramp(BlockSize, 250, 1)).engine }

\* io.Copy(dst, reader) run to its return, every Read with len(data) = dataLen;
\* rr is what one Read returned and t the turn of the loop it belongs to, each
\* worked out once
RECURSIVE cbcEncryptCopyAll(_, _, _, _, _)
cbcEncryptCopyAll(key, r, s, d, dataLen) ==
    CHOOSE end \in
        UNION {{IF t.ret = Running
                THEN cbcEncryptCopyAll(key, rr.reader, rr.src, t.dst, dataLen)
                ELSE t : t \in {copyTurn(rr, d)}} :
               rr \in {cbcEncryptReaderRead(key, r, s, dataLen)}} : TRUE

RECURSIVE cbcDecryptCopyAll(_, _, _, _, _)
cbcDecryptCopyAll(key, r, s, d, dataLen) ==
    CHOOSE end \in
        UNION {{IF t.ret = Running
                THEN cbcDecryptCopyAll(key, rr.reader, rr.src, t.dst, dataLen)
                ELSE t : t \in {copyTurn(rr, d)}} :
               rr \in {cbcDecryptReaderRead(key, r, s, dataLen)}} : TRUE

\* EncryptStream(bytes.NewReader(P), w) for a plain writer w: the source hands
\* over all of P in the first Read
EncryptInOneRead(c, P) ==
    LET b == cbcEncryptStreamBegin(c, bytesReader(P), plainWriter(-1))
    IN  IF b.ret # Running THEN [ret |-> b.ret, dst |-> b.dst]
        ELSE cbcEncryptCopyAll(c.key, b.reader, bytesReader(P), b.dst, CopyBufSize)

\* DecryptStream(bytes.NewReader(x), w) for a plain writer w
DecryptInOneRead(c, x) ==
    LET b == cbcDecryptStreamBegin(c, bytesReader(x))
    IN  IF b.ret # Running THEN [ret |-> b.ret, dst |-> plainWriter(-1)]
        ELSE cbcDecryptCopyAll(c.key, b.reader, b.src, plainWriter(-1), CopyBufSize)

InitChunked ==
    /\ engine \in ChunkEngines
    /\ call = [ctor |-> "NewCBCCipher", suite |-> AES256CBC,
               key |-> engine.key, iv |-> engine.iv]
    /\ cerr = Nil
    /\ op = "none"
    /\ pc = "idle"
    /\ src = bytesReader(<<>>)
    /\ dst = bytesBuffer
    /\ reader = NoReader
    /\ nonce = NilBytes
    /\ ret = Running
    /\ plain = NilBytes
    /\ input = NilBytes
    /\ tampered = FALSE
    /\ OthersIdle

ChunkedEncryptStream ==
    /\ pc = "idle"
    /\ engine.type = "cbcCipher"
    /\ \E n \in ChunkLens : \E s \in ChunkedSources(Ramp(n, 7, 5)) : \E d \in GoodSinks :
         LET b == cbcEncryptStreamBegin(engine, s, d) IN
         /\ op' = "EncryptStream"
         /\ plain' = s.data
         /\ src' = s
         /\ dst' = b.dst
         /\ reader' = b.reader
         /\ ret' = b.ret
         /\ pc' = AfterTurn(b.ret)
    /\ UNCHANGED <<call, engine, cerr, nonce, input, tampered>>
    /\ UNCHANGED others

\* DecryptStream(resp.Body, &decrypted) on what EncryptStream produced
ChunkedDecryptEncrypted ==
    /\ pc = "returned"
    /\ op = "EncryptStream"
    /\ engine.type = "cbcCipher"
    /\ ret = Nil
    /\ \E s \in ChunkedSources(dst.out) : \E d \in GoodSinks :
         LET b == cbcDecryptStreamBegin(engine, s) IN
         /\ op' = "DecryptStream"
         /\ input' = dst.out
         /\ src' = b.src
         /\ dst' = d
         /\ reader' = b.reader
         /\ ret' = b.ret
         /\ pc' = AfterTurn(b.ret)
    /\ UNCHANGED <<call, engine, cerr, nonce, plain, tampered>>
    /\ UNCHANGED others

\* DecryptStream on a stream no EncryptStream produced
ChunkedDecryptStream ==
    /\ pc = "idle"
    /\ engine.type = "cbcCipher"
    /\ \E x \in RawStreams(engine) : \E s \in ChunkedSources(x) : \E d \in GoodSinks :
         LET b == cbcDecryptStreamBegin(engine, s) IN
         /\ op' = "DecryptStream"
         /\ input' = x
         /\ src' = b.src
         /\ dst' = d
         /\ reader' = b.reader
         /\ ret' = b.ret
         /\ pc' = AfterTurn(b.ret)
    /\ UNCHANGED <<call, engine, cerr, nonce, plain, tampered>>
    /\ UNCHANGED others

NextChunked ==
    \/ ChunkedEncryptStream
    \/ CBCEncryptCopy
    \/ ChunkedDecryptEncrypted
    \/ ChunkedDecryptStream
    \/ CBCDecryptCopy

SpecChunked == InitChunked /\ [][NextChunked]_vars

-----------------------------------------------------------------------------
(* Direct calls of PKCS7Padder.Pad and PKCS7Padder.Unpad, with the block   *)
(* size cbcCipher gives the padder.                                        *)

\* data of up to MaxPadLen bytes, running totals of up to MaxPadTotal
MaxPadLen == 18
MaxPadTotal == 34

\* values of the last byte of what Unpad is given
PadBytes == {0, 1, 2, BlockSize - 1, BlockSize, BlockSize + 1, MaxPadLen, MaxPadLen + 1, 255}

PadData == {Ramp(n, 20, 3) : n \in 0..MaxPadLen}

UnpadData ==
    {<<>>} \cup {Ramp(n - 1, 20, 3) \o <<k>> : n \in 1..MaxPadLen, k \in PadBytes}

InitPadder ==
    /\ \/ \E d \in PadData : \E t \in 0..MaxPadTotal :
            padder = [NoPadCall EXCEPT !.fn = "Pad", !.data = d, !.size = t]
       \/ \E d \in UnpadData :
            padder = [NoPadCall EXCEPT !.fn = "Unpad", !.data = d, !.size = Len(d)]
    /\ call = NoCall
    /\ engine = NoEngine
    /\ cerr = Nil
    /\ op = "none"
    /\ pc = "padder"
    /\ src = bytesReader(<<>>)
    /\ dst = bytesBuffer
    /\ reader = NoReader
    /\ nonce = NilBytes
    /\ ret = Running
    /\ plain = NilBytes
    /\ input = NilBytes
    /\ tampered = FALSE
    /\ unpads = <<>>
    /\ PipeIdle
    /\ RetryIdle
    /\ StoreIdle

CallPad ==
    /\ padder.fn = "Pad"
    /\ ~padder.done
    /\ padder' = [padder EXCEPT !.out = Pad(padder.data, padder.size), !.done = TRUE]
    /\ UNCHANGED <<streamVars, unpads, pipeVars, retryVars, storeVars>>

CallUnpad ==
    /\ padder.fn = "Unpad"
    /\ ~padder.done
    /\ LET u == Unpad(padder.data) IN
         padder' = [padder EXCEPT !.out = u.out, !.panic = u.panic, !.done = TRUE]
    /\ UNCHANGED <<streamVars, unpads, pipeVars, retryVars, storeVars>>

NextPadder ==
    \/ CallPad
    \/ CallUnpad

SpecPadder == InitPadder /\ [][NextPadder]_vars

-----------------------------------------------------------------------------
(***************************************************************************)
(* The chunked AES-GCM engine with a pipe: EncryptStream and DecryptStream *)
(* start a goroutine (the producer) that reads the source, seals or opens  *)
(* what it read and writes it to an io.Pipe, while the caller (the         *)
(* consumer) runs io.Copy(dst, pr) and then receives from errCh.           *)
(*                                                                         *)
(* io.Pipe: pw.Write returns when Reads have taken all of its bytes; no    *)
(* one closes pr, so nothing else ends it.  pr.Read returns what a Write   *)
(* under way has left, or EOF once pw.Close() has run (the producer's      *)
(* deferred call).  errCh has room for the one value a producer sends.     *)
(***************************************************************************)

defaultBufferSize == 32768

\* the bytes per Read of the sources that deliver in pieces
MaxPipeStep == 5

\* what every call of the pipe engine starts from
PipeFresh ==
    /\ pipeData' = NilBytes
    /\ pipeClosed' = FALSE
    /\ errCh' = <<>>
    /\ perr' = Nil
    /\ held' = <<>>
    /\ seals' = <<>>
    /\ sent' = <<>>

\* EncryptStream up to the go statement; the source gives the plaintext all
\* at once, a few bytes per Read, or ends in an error
PipeEncryptStream ==
    /\ pc = "idle"
    /\ engine.type = "gcmContentCipher"
    /\ \E P \in {Ramp(n, 7, 5) : n \in {0, 1, MaxPipeStep + 2}} :
       \E s \in SourcesOf(P) \cup {chunkedReader(P, MaxPipeStep, g, FALSE) : g \in {0, 1}} :
       \E d \in Sinks : \E n \in Nonces :
         LET b == gcmEncryptStreamBegin(engine, n, d) IN
         /\ op' = "EncryptStream"
         /\ plain' = P
         /\ src' = s
         /\ dst' = b.dst
         /\ nonce' = n
         /\ ret' = IF b.ret \in {Running, ErrGCMNotInitialized} THEN b.ret
                   ELSE "failed to write nonce: " \o b.ret
         /\ pc' = IF b.ret = Running THEN "copy" ELSE "returned"
         /\ ppc' = IF b.ret = Running THEN "read" ELSE "none"
         /\ firstErr' = IF b.dst.failed THEN ErrShortWrite ELSE Nil
    /\ PipeFresh
    /\ UNCHANGED <<call, engine, cerr, reader, input, tampered, padder, unpads, retryVars>>
    /\ UNCHANGED storeVars

\* DecryptStream up to the go statement, on the output of an EncryptStream
\* that returned nil or on a stream that no EncryptStream produced
PipeDecryptStream ==
    /\ engine.type = "gcmContentCipher"
    /\ \/ pc = "idle"
       \/ pc = "returned" /\ op = "EncryptStream" /\ ret = Nil /\ ppc = "done"
    /\ \E x \in (IF pc = "idle" THEN RawGCMStreams ELSE {dst.out}) :
       \E s \in SourcesOf(x) : \E d \in Sinks :
         LET b == gcmDecryptStreamBegin(engine, s) IN
         /\ op' = "DecryptStream"
         /\ input' = x
         /\ src' = b.src
         /\ dst' = d
         /\ nonce' = b.nonce
         /\ ret' = IF b.ret \in {Running, Panic} THEN b.ret
                   ELSE "failed to read nonce: " \o b.ret
         /\ pc' = IF b.ret = Running THEN "copy" ELSE "returned"
         /\ ppc' = IF b.ret = Running THEN "read" ELSE "none"
         /\ firstErr' = IF b.src.failed THEN s.err
                        ELSE IF b.ret \in {Running, Panic} THEN Nil ELSE b.ret
    /\ PipeFresh
    /\ UNCHANGED <<call, engine, cerr, reader, plain, tampered, padder, unpads, retryVars>>
    /\ UNCHANGED storeVars

\* the producer leaves pw.Write pending with the bytes b
PipeWrite(b, after) ==
    /\ ppc' = "write"
    /\ pipeData' = b
    /\ perr' = after
    /\ sent' = sent \o b
    /\ UNCHANGED <<errCh, pipeClosed>>

\* the producer sends e to errCh and returns; its deferred pw.Close() runs
PipeProducerReturn(e) ==
    /\ ppc' = "done"
    /\ errCh' = Append(errCh, e)
    /\ pipeClosed' = TRUE
    /\ UNCHANGED <<pipeData, perr, sent>>

\* the producer of EncryptStream: one src.Read(buf) and, when it gave bytes,
\* the Seal of them, up to pw.Write
PipeEncryptProducer ==
    /\ op = "EncryptStream"
    /\ ppc = "read"
    /\ LET rd == srcRead(src, defaultBufferSize) IN
       /\ src' = rd.src
       /\ firstErr' = IF firstErr = Nil /\ rd.err \notin {Nil, EOF} THEN rd.err
                      ELSE firstErr
       /\ IF Len(rd.bytes) > 0
          THEN /\ PipeWrite(gcmSeal(engine.key, nonce, rd.bytes), rd.err)
               /\ seals' = Append(seals, nonce)
          ELSE /\ seals' = seals
               /\ IF rd.err = Nil
                  THEN UNCHANGED <<ppc, pipeData, perr, sent, errCh, pipeClosed>>
                  ELSE PipeProducerReturn(IF rd.err = EOF THEN Nil
                                          ELSE "failed to read source: " \o rd.err)
    /\ UNCHANGED <<call, engine, cerr, op, pc, dst, reader, nonce, ret, plain, input,
                   tampered, padder, unpads, retryVars, storeVars, held>>

\* the producer of DecryptStream: one io.ReadFull(src, buf) and the Open of
\* what it gave, up to pw.Write
PipeDecryptProducer ==
    /\ op = "DecryptStream"
    /\ ppc = "read"
    /\ LET rf     == readFull(src, defaultBufferSize + TagSize)
           o      == gcmOpen(engine.key, nonce, rf.bytes)
           opened == rf.err = Nil \/ (rf.err = ErrUnexpectedEOF /\ Len(rf.bytes) > 0)
       IN
       /\ src' = rf.src
       /\ firstErr' = IF firstErr # Nil THEN firstErr
                      ELSE IF rf.src.failed THEN src.err
                      ELSE IF opened THEN o.err
                      ELSE Nil
       /\ seals' = IF opened THEN Append(seals, nonce) ELSE seals
       /\ IF rf.err = ErrUnexpectedEOF
          THEN IF Len(rf.bytes) > 0
               THEN IF o.err # Nil
                    THEN PipeProducerReturn("failed to decrypt final block: " \o o.err)
                    ELSE PipeWrite(o.out, EOF)
               ELSE PipeProducerReturn(Nil)
          ELSE IF rf.err = EOF THEN PipeProducerReturn(Nil)
          ELSE IF rf.err # Nil
          THEN PipeProducerReturn("failed to read source: " \o rf.err)
          ELSE IF o.err # Nil
          THEN PipeProducerReturn("failed to decrypt block: " \o o.err)
          ELSE PipeWrite(o.out, Nil)
    /\ UNCHANGED <<call, engine, cerr, op, pc, dst, reader, nonce, ret, plain, input,
                   tampered, padder, unpads, retryVars, storeVars, held>>

\* pw.Write has returned: the producer goes on with what its Read had said
PipeProducerResume ==
    /\ ppc = "write"
    /\ pipeData = NilBytes
    /\ IF perr = Nil
       THEN /\ ppc' = "read"
            /\ UNCHANGED <<pipeData, perr, sent, errCh, pipeClosed>>
       ELSE PipeProducerReturn(IF perr = EOF THEN Nil
                               ELSE "failed to read source: " \o perr)
    /\ UNCHANGED <<call, engine, cerr, op, pc, src, dst, reader, nonce, ret, plain,
                   input, tampered, padder, unpads, retryVars, storeVars, held, seals, firstErr>>

\* io.Copy(dst, pr): one pr.Read
PipeCopyRead ==
    /\ pc = "copy"
    /\ IF pipeData # NilBytes
       THEN \E room \in ReadLens(dst) :
              LET k == Min(room, Len(pipeData)) IN
              /\ held' = Take(pipeData, k)
              /\ pipeData' = IF k = Len(pipeData) THEN NilBytes ELSE Drop(pipeData, k)
              /\ pc' = IF k > 0 THEN "cwrite" ELSE "copy"
       ELSE /\ pipeClosed
            /\ pc' = "recv"
            /\ UNCHANGED <<held, pipeData>>
    /\ UNCHANGED <<call, engine, cerr, op, src, dst, reader, nonce, ret, plain, input,
                   tampered, padder, unpads, retryVars, ppc, pipeClosed, errCh, perr, seals, sent,
                   firstErr>>
    /\ UNCHANGED storeVars

\* io.Copy(dst, pr): the dst.Write of what pr.Read gave; an error ends the call
PipeCopyWrite ==
    /\ pc = "cwrite"
    /\ LET w == sinkWrite(dst, held) IN
       /\ dst' = w.dst
       /\ held' = <<>>
       /\ firstErr' = IF firstErr = Nil THEN w.err ELSE firstErr
       /\ pc' = IF w.err = Nil THEN "copy" ELSE "returned"
       /\ ret' = IF w.err = Nil THEN ret
                 ELSE IF op = "EncryptStream"
                 THEN "failed to copy encrypted data: " \o w.err
                 ELSE "failed to copy decrypted data: " \o w.err
    /\ UNCHANGED <<call, engine, cerr, op, src, reader, nonce, plain, input, tampered,
                   padder, unpads, retryVars, ppc, pipeData, pipeClosed, errCh, perr, seals, sent>>
    /\ UNCHANGED storeVars

\* return <-errCh
PipeReceive ==
    /\ pc = "recv"
    /\ errCh # <<>>
    /\ ret' = Head(errCh)
    /\ errCh' = Tail(errCh)
    /\ pc' = "returned"
    /\ UNCHANGED <<call, engine, cerr, op, src, dst, reader, nonce, plain, input,
                   tampered, padder, unpads, retryVars, ppc, pipeData, pipeClosed, perr, held,
                   seals,
                   sent, firstErr>>
    /\ UNCHANGED storeVars

NextPipe ==
    \/ PipeEncryptStream
    \/ PipeDecryptStream
    \/ PipeEncryptProducer
    \/ PipeDecryptProducer
    \/ PipeProducerResume
    \/ PipeCopyRead
    \/ PipeCopyWrite
    \/ PipeReceive

SpecPipe == InitGCM /\ [][NextPipe]_vars

-----------------------------------------------------------------------------
(***************************************************************************)
(* Client.doWithRetry, in its two versions: the one that gives every URL   *)
(* of the list MaxRetries + 1 attempts before it goes to the next, and the *)
(* one that takes the URLs round robin for MaxRetries + 1 attempts in all. *)
(*                                                                         *)
(* An endpoint is what the test servers are: [okAt, kind].  It answers 200 *)
(* from its okAt-th request on (never when okAt = 0); before that a server *)
(* of kind "status" answers 500 and one of kind "error" makes               *)
(* httpClient.Do return an error.  A request has no body, or one that a    *)
(* bytes.Reader gives, or one whose reader fails.                          *)
(***************************************************************************)

\* the largest MaxRetries and the longest list of URLs of a Client
MaxMaxRetries == 3

MaxURLs == 2

StatusOK == 200

StatusInternalServerError == 500

\* the response of the endpoint e to its n-th request
endpointAnswer(e, n) ==
    IF e.okAt > 0 /\ n >= e.okAt THEN [err |-> Nil, status |-> StatusOK]
    ELSE IF e.kind = "error" THEN [err |-> "connection refused", status |-> 0]
    ELSE [err |-> Nil, status |-> StatusInternalServerError]

\* the first base URL of a client may end in a path, as "https://host/api"
Endpoints == {[okAt |-> k, kind |-> t] : k \in 0..(MaxMaxRetries + 2), t \in {"status", "error"}}

InitRetry ==
    /\ \E m \in -1..MaxMaxRetries : \E n \in 0..MaxURLs : \E u \in [1..n -> Endpoints] :
       \E v \in {"perURL", "roundRobin"} : \E pfx \in {"", "/api"} :
         client = [maxRetries |-> m,
                   urls |-> Seq0([i \in 1..n |->
                                    [okAt |-> u[i].okAt, kind |-> u[i].kind,
                                     prefix |-> IF i = 1 THEN pfx ELSE ""]]),
                   variant |-> v]
    /\ call = NoCall
    /\ engine = NoEngine
    /\ cerr = Nil
    /\ op = "none"
    /\ pc = "client"
    /\ src = bytesReader(<<>>)
    /\ dst = bytesBuffer
    /\ reader = NoReader
    /\ nonce = NilBytes
    /\ ret = Running
    /\ plain = NilBytes
    /\ input = NilBytes
    /\ tampered = FALSE
    /\ padder = NoPadCall
    /\ unpads = <<>>
    /\ PipeIdle
    /\ rpc = "none"
    /\ urlIdx = 0
    /\ attempt = 0
    /\ lastErr = Nil
    /\ resp = [status |-> 0, from |-> 0]
    /\ rerr = Nil
    /\ hits = [i \in 1..Len(client.urls) |-> 0]
    /\ sleeps = 0
    /\ reqBytes = NilBytes
    /\ reqBody = bytesReader(<<>>)
    /\ sentBodies = <<>>
    /\ reqPath = "/v1/store?epochs=1"
    /\ targets = <<>>
    /\ StoreIdle

\* totalAttempts := c.retryConfig.MaxRetries
totalAttemptsNoFirstTry(maxRetries) == maxRetries

\* totalAttempts := c.retryConfig.MaxRetries + 1
totalAttempts(maxRetries) == maxRetries + 1

\* fmt.Errorf("all retry attempts failed: %w", lastErr)
allFailed(e) ==
    "all retry attempts failed: " \o (IF e = Nil THEN "%!w(<nil>)" ELSE e)

\* doWithRetry up to its first httpClient.Do: a range over no URL and a loop
\* of no attempt return at once; attemptCount % len(urls) with no URL is a
\* division by zero
CallDoWithRetry ==
    /\ rpc = "none"
    /\ client.variant # "none"
    /\ LET none == IF client.variant = "perURL"
                   THEN Len(client.urls) = 0 \/ client.maxRetries < 0
                   ELSE totalAttempts(client.maxRetries) <= 0
       IN
       /\ rpc' = IF none \/ Len(client.urls) = 0 THEN "returned" ELSE "loop"
       /\ rerr' = IF none THEN allFailed(Nil)
                  ELSE IF Len(client.urls) = 0 THEN Panic
                  ELSE Nil
    /\ urlIdx' = 1
    /\ attempt' = 0
    /\ \/ /\ spc = "none"
          /\ \E b \in {NilBytes, <<>>, <<7, 8, 9>>} :
               /\ reqBytes' = b
               /\ \/ reqBody' = bytesReader(IF b = NilBytes THEN <<>> ELSE b)
                  \/ /\ b = <<7, 8, 9>>
                     /\ reqBody' = failingSource(b, ErrUnexpectedEOF, FALSE)
       \/ /\ spc = "sending"
          /\ UNCHANGED <<reqBytes, reqBody>>
    /\ UNCHANGED <<client, lastErr, resp, hits, sleeps, sentBodies, reqPath, targets>>
    /\ UNCHANGED <<streamVars, padder, unpads, pipeVars, storeVars>>

\* one reader for both requests: httpClient.Do leaves req.Body consumed
copyBodyShared(bodyBytes) ==
    [newReq |-> bytesReader(bodyBytes), req |-> bytesReader(<<>>)]

\* the two readers made of bodyBytes: the Body of newReq, which httpClient.Do
\* consumes, and the new req.Body
copyBody(bodyBytes) ==
    [newReq |-> bytesReader(bodyBytes), req |-> bytesReader(bodyBytes)]

\* round robin that stays with the first URL
urlIndexFirst(attemptCount, n) == 1

\* urlIndex := attemptCount % len(urls), counted from 1 as the positions of a
\* sequence are
urlIndex(attemptCount, n) == (attemptCount % n) + 1

\* req.URL.Host = ""; req.URL.Scheme = ""; fullURL := baseURL + req.URL.String();
\* req.URL, _ = url.Parse(fullURL): the base URL i is scheme, host and a path
\* prefix, and what follows the host of fullURL is the path of the new req.URL
rewriteURL(baseURL, i, path) == [host |-> i, path |-> baseURL.prefix \o path]

\* one attempt: the URL rewrite, the copy of the body, httpClient.Do(newReq)
\* to the URL at i and what follows it up to the next attempt; more says
\* whether the loop goes on after this attempt
doAttempt(i, more, nextIdx) ==
    LET a  == endpointAnswer(client.urls[i], hits[i] + 1)
        e  == IF a.err # Nil THEN a.err
              ELSE "request failed with status code " \o ToString(a.status)
        ra == readAll(reqBody)
    IN
    IF reqBytes # NilBytes /\ ra.err # Nil
    THEN /\ reqBody' = ra.src
         /\ rerr' = "failed to read request body: " \o ra.err
         /\ rpc' = "returned"
         /\ reqPath' = rewriteURL(client.urls[i], i, reqPath).path
         /\ UNCHANGED <<client, lastErr, resp, hits, sleeps, attempt, urlIdx, reqBytes,
                        sentBodies, targets, streamVars, padder, unpads, pipeVars,
                        storeVars>>
    ELSE
    /\ reqBody' = IF reqBytes = NilBytes THEN reqBody ELSE copyBody(ra.bytes).req
    /\ sentBodies' = Append(sentBodies, IF reqBytes = NilBytes THEN NilBytes
                                        ELSE readAll(copyBody(ra.bytes).newReq).bytes)
    /\ reqBytes' = reqBytes
    /\ reqPath' = rewriteURL(client.urls[i], i, reqPath).path
    /\ targets' = Append(targets, rewriteURL(client.urls[i], i, reqPath))
    /\ hits' = [hits EXCEPT ![i] = @ + 1]
    /\ IF a.err = Nil /\ a.status = StatusOK
       THEN /\ resp' = [status |-> a.status, from |-> i]
            /\ rerr' = Nil
            /\ rpc' = "returned"
            /\ UNCHANGED <<lastErr, attempt, urlIdx, sleeps>>
       ELSE /\ lastErr' = e
            /\ resp' = resp
            /\ rpc' = IF more \/ nextIdx <= Len(client.urls) THEN "loop" ELSE "returned"
            /\ rerr' = IF more \/ nextIdx <= Len(client.urls) THEN rerr ELSE allFailed(e)
            /\ sleeps' = IF more THEN sleeps + 1 ELSE sleeps
            /\ attempt' = IF more THEN attempt + 1 ELSE 0
            /\ urlIdx' = IF more THEN urlIdx ELSE nextIdx
    /\ UNCHANGED <<client, streamVars, padder, unpads, pipeVars, storeVars>>

\* the loop over the URLs without the inner loop: one attempt for each URL
AttemptPerURLNoRetry ==
    /\ rpc = "loop"
    /\ client.variant = "perURL"
    /\ doAttempt(urlIdx, FALSE, urlIdx + 1)

\* the version that retries each URL: for _, baseURL := range urls { for
\* attempt := 0; attempt <= MaxRetries; attempt++ { ... } }
AttemptPerURL ==
    /\ rpc = "loop"
    /\ client.variant = "perURL"
    /\ doAttempt(urlIdx, attempt < client.maxRetries, urlIdx + 1)

\* the round-robin version: for attemptCount < totalAttempts { urlIndex :=
\* attemptCount % len(urls) ... }
AttemptRoundRobin ==
    /\ rpc = "loop"
    /\ client.variant = "roundRobin"
    /\ doAttempt(urlIndex(attempt, Len(client.urls)),
                 attempt < totalAttempts(client.maxRetries) - 1,
                 Len(client.urls) + 1)

NextRetry ==
    \/ CallDoWithRetry
    \/ AttemptPerURL
    \/ AttemptRoundRobin

SpecRetry == InitRetry /\ [][NextRetry]_vars

-----------------------------------------------------------------------------
(* Client.Store and Client.StoreFromReader: the request they build, with   *)
(* the encryption that StoreOptions asks for, its way through doWithRetry, *)
(* and the StoreResponse they return.                                      *)

\* contents of up to MaxStoreLen bytes, limits for uploads of unknown length of
\* up to MaxStoreLimit bytes
MaxStoreLen == 17
MaxStoreLimit == 16

\* NormalizeBlobResponse that looks at AlreadyCertified last
NormalizeBlobResponseCertifiedLast(r) ==
    LET n == IF r.NewlyCreated.set
             THEN [r EXCEPT !.Blob = [BlobID   |-> r.NewlyCreated.BlobObject.BlobID,
                                      EndEpoch |-> r.NewlyCreated.BlobObject.Storage.EndEpoch]]
             ELSE r
    IN  IF n.AlreadyCertified.set
        THEN [n EXCEPT !.Blob = [BlobID   |-> n.AlreadyCertified.BlobID,
                                 EndEpoch |-> n.AlreadyCertified.EndEpoch]]
        ELSE n

\* a StoreResponse is [Blob, NewlyCreated, AlreadyCertified]; set is FALSE for
\* a nil pointer
NormalizeBlobResponse(r) ==
    LET a == IF r.AlreadyCertified.set
             THEN [r EXCEPT !.Blob = [BlobID   |-> r.AlreadyCertified.BlobID,
                                      EndEpoch |-> r.AlreadyCertified.EndEpoch]]
             ELSE r
    IN  IF a.NewlyCreated.set
        THEN [a EXCEPT !.Blob = [BlobID   |-> a.NewlyCreated.BlobObject.BlobID,
                                 EndEpoch |-> a.NewlyCreated.BlobObject.Storage.EndEpoch]]
        ELSE a

\* what json.Unmarshal can make of the publisher's answer
StoreResponses ==
    [Blob : {[BlobID |-> "", EndEpoch |-> 0], [BlobID |-> "blob0", EndEpoch |-> 1]},
     NewlyCreated :
        {[set |-> FALSE, BlobObject |-> [BlobID |-> "", Storage |-> [EndEpoch |-> 0]]],
         [set |-> TRUE, BlobObject |-> [BlobID |-> "blobN", Storage |-> [EndEpoch |-> 5]]]},
     AlreadyCertified :
        {[set |-> FALSE, BlobID |-> "", EndEpoch |-> 0],
         [set |-> TRUE, BlobID |-> "blobA", EndEpoch |-> 9]}]

\* getCipher that does not look at the length of the key
getCipherNoKeyCheck(opts) ==
    IF ~opts.set THEN Failed("encryption key is required")
    ELSE IF opts.Mode = "CBC"
    THEN IF len(opts.IV) = 0 THEN Failed("IV is required for CBC mode")
         ELSE NewStreamCBCCipher(opts.Key, opts.IV)
    ELSE IF opts.Mode \in {"GCM", ""}
    THEN Built([type |-> "gcmCipher", key |-> opts.Key, iv |-> NilBytes, gcm |-> FALSE])
    ELSE Failed("unsupported encryption mode: " \o opts.Mode)

\* opts is an EncryptionOptions, [set, Key, Mode, IV]; NewGCMCipher(key) is
\* &gcmCipher{key: key}
getCipher(opts) ==
    IF ~opts.set \/ len(opts.Key) = 0 THEN Failed("encryption key is required")
    ELSE IF opts.Mode = "CBC"
    THEN IF len(opts.IV) = 0 THEN Failed("IV is required for CBC mode")
         ELSE NewStreamCBCCipher(opts.Key, opts.IV)
    ELSE IF opts.Mode \in {"GCM", ""}
    THEN Built([type |-> "gcmCipher", key |-> opts.Key, iv |-> NilBytes, gcm |-> FALSE])
    ELSE Failed("unsupported encryption mode: " \o opts.Mode)

\* gcmCipher.EncryptStream with the nonce n from rand.Read
gcmCipherEncryptStream(c, n, s, d) ==
    LET w1 == sinkWrite(d, n)
        ra == readAll(s)
        w2 == sinkWrite(w1.dst, gcmSeal(c.key, n, ra.bytes))
    IN  IF aesNewCipher(c.key) # Nil THEN [ret |-> ErrKeySize, dst |-> d]
        ELSE IF w1.err # Nil THEN [ret |-> w1.err, dst |-> w1.dst]
        ELSE IF ra.err # Nil THEN [ret |-> ra.err, dst |-> w1.dst]
        ELSE [ret |-> w2.err, dst |-> w2.dst]

\* Store and StoreFromReader(reader, opts) up to http.NewRequest: the body of
\* the request, or the error returned
storeRequest(s, opts, n) ==
    LET c == getCipher(opts)
        b == cbcEncryptStreamBegin(c.engine, s, bytesBuffer)
        e == IF c.engine.type = "gcmCipher"
             THEN gcmCipherEncryptStream(c.engine, n, s, bytesBuffer)
             ELSE IF b.ret # Running THEN [ret |-> b.ret, dst |-> b.dst]
             ELSE cbcEncryptCopyAll(c.engine.key, b.reader, s, b.dst, MinRead)
    IN  IF ~opts.set THEN [err |-> Nil, reader |-> s, bytes |-> s.data]
        ELSE IF c.err # Nil
        THEN [err |-> "failed to create cipher: " \o c.err, reader |-> s, bytes |-> <<>>]
        ELSE IF e.ret = Panic THEN [err |-> Panic, reader |-> s, bytes |-> <<>>]
        ELSE IF e.ret # Nil
        THEN [err |-> "failed to encrypt data: " \o e.ret, reader |-> s, bytes |-> <<>>]
        ELSE [err |-> Nil, reader |-> bytesReader(e.dst.out), bytes |-> e.dst.out]

\* StoreFromReader that sends content of any length
storeFromReaderRequestNoLimit(s, contentLength, limit) ==
    LET ra == readAll(s) IN
    IF contentLength > 0
    THEN [err |-> Nil, reader |-> s, bytes |-> s.data, contentLength |-> contentLength]
    ELSE IF ra.err # Nil
    THEN [err |-> "failed to read content: " \o ra.err, reader |-> ra.src, bytes |-> <<>>,
          contentLength |-> contentLength]
    ELSE [err |-> Nil, reader |-> bytesReader(ra.bytes), bytes |-> ra.bytes,
          contentLength |-> Len(ra.bytes)]

\* StoreFromReader(reader, contentLength, opts) up to http.NewRequest
storeFromReaderRequest(s, contentLength, limit) ==
    LET ra == readAll(s) IN
    IF contentLength > 0
    THEN [err |-> Nil, reader |-> s, bytes |-> s.data, contentLength |-> contentLength]
    ELSE IF ra.err # Nil
    THEN [err |-> "failed to read content: " \o ra.err, reader |-> ra.src, bytes |-> <<>>,
          contentLength |-> contentLength]
    ELSE IF Len(ra.bytes) > limit
    THEN [err |-> "content length " \o ToString(Len(ra.bytes))
                  \o " bytes exceeds maximum allowed size of " \o ToString(limit)
                  \o " bytes for uploads with unknown length",
          reader |-> ra.src, bytes |-> <<>>, contentLength |-> Len(ra.bytes)]
    ELSE [err |-> Nil, reader |-> bytesReader(ra.bytes), bytes |-> ra.bytes,
          contentLength |-> Len(ra.bytes)]

StoreKeys == {NilBytes, <<>>, Ramp(BlockSize - 1, 1, 3), Ramp(BlockSize, 1, 3), Ramp(32, 2, 5)}

StoreOptions ==
    {[set |-> FALSE, Key |-> NilBytes, Mode |-> "", IV |-> NilBytes]}
    \cup [set : {TRUE}, Key : StoreKeys, Mode : {"", "GCM", "CBC", "ECB"},
          IV : {NilBytes, Repeat(0, BlockSize \div 2), Repeat(0, BlockSize)}]

StoreData == {Ramp(n, 7, 5) : n \in {0, 3, MaxStoreLen}}

\* the caller's reader: one that delivers d, or one that breaks after it
StoreReaders(d) == {bytesReader(d), failingSource(d, ErrUnexpectedEOF, FALSE)}

\* a positive contentLength is the length of the content
StoreCalls ==
    {[fn |-> "Store", reader |-> bytesReader(d), opts |-> o, contentLength |-> 0] :
        d \in StoreData, o \in StoreOptions}
    \cup {[fn |-> "StoreFromReader(reader, opts)", reader |-> r, opts |-> o,
           contentLength |-> 0] :
            r \in UNION {StoreReaders(d) : d \in StoreData}, o \in StoreOptions}
    \cup {[fn |-> "StoreFromReader(reader, contentLength, opts)", reader |-> r,
           opts |-> [set |-> FALSE, Key |-> NilBytes, Mode |-> "", IV |-> NilBytes],
           contentLength |-> n] :
            r \in UNION {StoreReaders(d) : d \in StoreData},
            n \in {-1, 0, 3, MaxStoreLen}}
    \cup {[fn |-> "ReadToReader", reader |-> bytesReader(<<>>), opts |-> o,
           contentLength |-> 0] : o \in StoreOptions}

\* the publishers: one that answers 200 at once, one that answers 500 first,
\* one that never answers
InitStore ==
    /\ store \in StoreCalls
    /\ store.contentLength > 0 => store.contentLength = Len(store.reader.data)
    /\ \E m \in {0, 1} : \E n \in 0..MaxURLs :
       \E u \in [1..n -> {[okAt |-> 1, kind |-> "status", prefix |-> ""],
                          [okAt |-> 2, kind |-> "status", prefix |-> ""],
                          [okAt |-> 0, kind |-> "error", prefix |-> ""]}] :
       \E limit \in {0, 3, MaxStoreLimit} :
         /\ store.fn # "StoreFromReader(reader, contentLength, opts)" => limit = 0
         /\ client = [maxRetries |-> m, urls |-> Seq0(u),
                      variant |-> IF store.fn = "StoreFromReader(reader, contentLength, opts)"
                                  THEN "perURL" ELSE "roundRobin",
                      MaxUnknownLengthUploadSize |-> limit]
    /\ spc = "call"
    /\ contentLen = 0
    /\ sresult = [resp |-> [set |-> FALSE], err |-> Nil]
    /\ bodyClosed = FALSE
    /\ call = NoCall
    /\ engine = NoEngine
    /\ cerr = Nil
    /\ op = "none"
    /\ pc = "client"
    /\ src = bytesReader(<<>>)
    /\ dst = bytesBuffer
    /\ reader = NoReader
    /\ nonce = NilBytes
    /\ ret = Running
    /\ plain = NilBytes
    /\ input = NilBytes
    /\ tampered = FALSE
    /\ padder = NoPadCall
    /\ unpads = <<>>
    /\ PipeIdle
    /\ rpc = "none"
    /\ urlIdx = 0
    /\ attempt = 0
    /\ lastErr = Nil
    /\ resp = [status |-> 0, from |-> 0]
    /\ rerr = Nil
    /\ hits = [i \in 1..Len(client.urls) |-> 0]
    /\ sleeps = 0
    /\ reqBytes = NilBytes
    /\ reqBody = bytesReader(<<>>)
    /\ sentBodies = <<>>
    /\ reqPath = "/v1/store?epochs=1"
    /\ targets = <<>>

\* the call returns q.err, or goes on to doWithRetry with the request it built
StoreSend(q, length) ==
    /\ spc' = IF q.err # Nil THEN "returned" ELSE "sending"
    /\ sresult' = IF q.err # Nil THEN [resp |-> [set |-> FALSE], err |-> q.err] ELSE sresult
    /\ reqBytes' = IF q.err # Nil THEN reqBytes ELSE q.bytes
    /\ reqBody' = IF q.err # Nil THEN reqBody ELSE q.reader
    /\ contentLen' = IF q.err # Nil THEN contentLen ELSE length
    /\ UNCHANGED <<store, bodyClosed, client, rpc, urlIdx, attempt, lastErr, resp, rerr,
                   hits, sleeps, sentBodies, reqPath, targets, streamVars, padder, unpads,
                   pipeVars>>

\* Store(data, opts) and StoreFromReader(reader, opts), which differ in the
\* reader only; http.NewRequest knows the length of a bytes.Reader and of a
\* bytes.Buffer
Store ==
    /\ spc = "call"
    /\ store.fn \in {"Store", "StoreFromReader(reader, opts)"}
    /\ \E n \in Nonces :
         LET q == storeRequest(store.reader, store.opts, n) IN
         StoreSend(q, IF q.reader.err = EOF THEN Len(q.bytes) ELSE 0)

StoreFromReader ==
    /\ spc = "call"
    /\ store.fn = "StoreFromReader(reader, contentLength, opts)"
    /\ LET q == storeFromReaderRequest(store.reader, store.contentLength,
                                       client.MaxUnknownLengthUploadSize)
       IN  StoreSend(q, q.contentLength)

\* doWithRetry has returned: defer resp.Body.Close(), io.ReadAll(resp.Body),
\* json.Unmarshal and NormalizeBlobResponse; body is what the publisher answered
StoreReturn ==
    /\ spc = "sending"
    /\ rpc = "returned"
    /\ store.fn # "ReadToReader"
    /\ bodyClosed' = (rerr = Nil)
    /\ spc' = "returned"
    /\ \E j \in StoreResponses : \E parsed \in BOOLEAN :
         sresult' = IF rerr # Nil THEN [resp |-> [set |-> FALSE], err |-> rerr]
                    ELSE IF ~parsed
                    THEN [resp |-> [set |-> FALSE],
                          err |-> "failed to parse response: invalid character"]
                    ELSE [resp |-> NormalizeBlobResponse(j), err |-> Nil, body |-> j]
    /\ UNCHANGED <<store, contentLen, retryVars, streamVars, padder, unpads, pipeVars>>

\* gcmCipher.DecryptStream
gcmCipherDecryptStream(c, s, d) ==
    LET rf == readFull(s, NonceSize)
        ra == readAll(rf.src)
        o  == gcmOpen(c.key, rf.bytes, ra.bytes)
        w  == sinkWrite(d, o.out)
    IN  IF aesNewCipher(c.key) # Nil THEN [ret |-> ErrKeySize, dst |-> d]
        ELSE IF rf.err # Nil THEN [ret |-> rf.err, dst |-> d]
        ELSE IF ra.err # Nil THEN [ret |-> ra.err, dst |-> d]
        ELSE IF o.err # Nil THEN [ret |-> o.err, dst |-> d]
        ELSE [ret |-> w.err, dst |-> w.dst]

\* ReadToReader(blobID, opts) up to the call of doWithRetry: a GET without a
\* body
ReadToReader ==
    /\ spc = "call"
    /\ store.fn = "ReadToReader"
    /\ spc' = "sending"
    /\ reqBytes' = NilBytes
    /\ reqPath' = "/v1/blobID"
    /\ UNCHANGED <<store, contentLen, sresult, bodyClosed, client, rpc, urlIdx, attempt,
                   lastErr, resp, rerr, hits, sleeps, reqBody, sentBodies, targets,
                   streamVars, padder, unpads, pipeVars>>

\* ReadToReader after doWithRetry; x is what the aggregator sent as the body
\* of its 200 response: nothing, bytes that no EncryptStream produced, or what
\* a Store with the same options uploaded.  reader is what the caller gets to
\* read and close.
ReadToReaderReturn ==
    /\ spc = "sending"
    /\ rpc = "returned"
    /\ store.fn = "ReadToReader"
    /\ spc' = "returned"
    /\ bodyClosed' = bodyClosed
    /\ \E n \in Nonces :
       LET up == storeRequest(bytesReader(Ramp(3, 7, 5)), store.opts, n) IN
       \E x \in {<<>>, Ramp(2 * BlockSize + 8, 3, 7)}
                \cup (IF up.err = Nil THEN {up.bytes} ELSE {}) :
         LET c == getCipher(store.opts)
             b == cbcDecryptStreamBegin(c.engine, bytesReader(x))
             e == IF c.engine.type = "gcmCipher"
                  THEN gcmCipherDecryptStream(c.engine, bytesReader(x), bytesBuffer)
                  ELSE IF b.ret # Running THEN [ret |-> b.ret, dst |-> bytesBuffer]
                  ELSE cbcDecryptCopyAll(c.engine.key, b.reader, b.src, bytesBuffer, MinRead)
             none == [set |-> FALSE]
         IN  sresult' =
               IF rerr # Nil THEN [resp |-> none, err |-> rerr, reader |-> "nil"]
               ELSE IF ~store.opts.set
               THEN [resp |-> none, err |-> Nil, reader |-> "resp.Body", bytes |-> x]
               ELSE IF c.err # Nil
               THEN [resp |-> none, err |-> "failed to create cipher: " \o c.err,
                     reader |-> "nil"]
               ELSE IF e.ret = Panic THEN [resp |-> none, err |-> Panic, reader |-> "nil"]
               ELSE IF e.ret # Nil
               THEN [resp |-> none, err |-> "failed to decrypt data: " \o e.ret,
                     reader |-> "nil"]
               ELSE [resp |-> none, err |-> Nil, reader |-> "decryptedBuf",
                     bytes |-> e.dst.out]
    /\ UNCHANGED <<store, contentLen, retryVars, streamVars, padder, unpads, pipeVars>>

NextStore ==
    \/ Store
    \/ StoreFromReader
    \/ ReadToReader
    \/ CallDoWithRetry
    \/ AttemptPerURL
    \/ AttemptRoundRobin
    \/ StoreReturn
    \/ ReadToReaderReturn

SpecStore == InitStore /\ [][NextStore]_vars

-----------------------------------------------------------------------------
(* The package-level EncryptStream(key, src, dst) and DecryptStream(key,   *)
(* src, dst): AES-CTR behind the magic bytes "WAL_V1", the IV and the      *)
(* encrypted magic bytes.                                                  *)

\* plaintexts of up to MaxCTRLen bytes
MaxCTRLen == 17

ErrDecryption == "failed to decrypt data: invalid key or corrupted data"

\* []byte("WAL_V1")
magicBytes == <<87, 65, 76, 95, 86, 49>>

\* cipher.NewCTR(block, iv) followed by stream.XORKeyStream(dst, b): the bytes
\* of b combined with the encryptions of iv, iv+1, ..., iv as a big-endian
\* counter
XORKeyStream(key, iv, b) ==
    LET RECURSIVE inc(_, _)
        inc(ctr, pos) ==
            IF pos = 0 THEN ctr
            ELSE IF ctr[pos] < 255 THEN [ctr EXCEPT ![pos] = @ + 1]
            ELSE inc([ctr EXCEPT ![pos] = 0], pos - 1)
        RECURSIVE stream(_, _)
        stream(ctr, n) ==
            IF n <= 0 THEN <<>>
            ELSE Take(BlockEncrypt(KeyMix(key), ctr), n)
                 \o stream(inc(ctr, BlockSize), n - BlockSize)
    IN  XorBytes(b, stream(iv, Len(b)))

\* EncryptStream with the IV iv from rand.Read; io.Copy hands the
\* cipher.StreamWriter what src delivers, in one Write when there is any
ctrEncryptStream(key, iv, s, d) ==
    LET w1 == sinkWrite(d, magicBytes)
        w2 == sinkWrite(w1.dst, iv)
        w3 == sinkWrite(w2.dst, XORKeyStream(key, iv, magicBytes))
        ra == readAll(s)
        w4 == IF Len(ra.bytes) > 0 THEN sinkWrite(w3.dst, XORKeyStream(key, iv, ra.bytes))
              ELSE [err |-> Nil, dst |-> w3.dst]
    IN  IF aesNewCipher(key) # Nil THEN [ret |-> ErrKeySize, src |-> s, dst |-> d]
        ELSE IF w1.err # Nil THEN [ret |-> w1.err, src |-> s, dst |-> w1.dst]
        ELSE IF w2.err # Nil THEN [ret |-> w2.err, src |-> s, dst |-> w2.dst]
        ELSE IF w3.err # Nil THEN [ret |-> w3.err, src |-> s, dst |-> w3.dst]
        ELSE IF w4.err # Nil THEN [ret |-> w4.err, src |-> ra.src, dst |-> w4.dst]
        ELSE [ret |-> ra.err, src |-> ra.src, dst |-> w4.dst]

\* DecryptStream that does not compare the decrypted verification bytes
ctrDecryptStreamNoVerification(key, s, d) ==
    LET h  == readFull(s, Len(magicBytes))
        i  == readFull(h.src, BlockSize)
        v  == readFull(i.src, Len(magicBytes))
        ra == readAll(v.src)
        w  == IF Len(ra.bytes) > 0 THEN sinkWrite(d, XORKeyStream(key, i.bytes, ra.bytes))
              ELSE [err |-> Nil, dst |-> d]
    IN  IF h.err # Nil THEN [ret |-> ErrDecryption, src |-> h.src, dst |-> d]
        ELSE IF h.bytes # magicBytes THEN [ret |-> ErrDecryption, src |-> h.src, dst |-> d]
        ELSE IF aesNewCipher(key) # Nil THEN [ret |-> ErrKeySize, src |-> h.src, dst |-> d]
        ELSE IF i.err # Nil THEN [ret |-> ErrDecryption, src |-> i.src, dst |-> d]
        ELSE IF v.err # Nil THEN [ret |-> ErrDecryption, src |-> v.src, dst |-> d]
        ELSE IF w.err # Nil THEN [ret |-> w.err, src |-> ra.src, dst |-> w.dst]
        ELSE [ret |-> ra.err, src |-> ra.src, dst |-> w.dst]

\* DecryptStream; io.Copy hands dst what the cipher.StreamReader delivers
ctrDecryptStream(key, s, d) ==
    LET h  == readFull(s, Len(magicBytes))
        i  == readFull(h.src, BlockSize)
        v  == readFull(i.src, Len(magicBytes))
        ra == readAll(v.src)
        w  == IF Len(ra.bytes) > 0 THEN sinkWrite(d, XORKeyStream(key, i.bytes, ra.bytes))
              ELSE [err |-> Nil, dst |-> d]
    IN  IF h.err # Nil THEN [ret |-> ErrDecryption, src |-> h.src, dst |-> d]
        ELSE IF h.bytes # magicBytes THEN [ret |-> ErrDecryption, src |-> h.src, dst |-> d]
        ELSE IF aesNewCipher(key) # Nil THEN [ret |-> ErrKeySize, src |-> h.src, dst |-> d]
        ELSE IF i.err # Nil THEN [ret |-> ErrDecryption, src |-> i.src, dst |-> d]
        ELSE IF v.err # Nil THEN [ret |-> ErrDecryption, src |-> v.src, dst |-> d]
        ELSE IF XORKeyStream(key, i.bytes, v.bytes) # magicBytes
        THEN [ret |-> ErrDecryption, src |-> v.src, dst |-> d]
        ELSE IF w.err # Nil THEN [ret |-> w.err, src |-> ra.src, dst |-> w.dst]
        ELSE [ret |-> ra.err, src |-> ra.src, dst |-> w.dst]

\* keys of the three AES lengths and one that is a byte short
CTRKeys == {Ramp(16, 1, 3), Ramp(24, 2, 5), Repeat(0, 32), Ramp(BlockSize - 1, 1, 3)}

\* what rand.Read may put into the IV; the second makes the counter wrap
CTRIVs == {Ramp(BlockSize, 40, 9), Repeat(255, BlockSize)}

\* streams that no EncryptStream produced: short of the header, without the
\* magic bytes, with verification bytes of no key
RawCTRStreams ==
    {Take(magicBytes \o Repeat(0, BlockSize) \o magicBytes, n) :
        n \in {0, 3, Len(magicBytes), Len(magicBytes) + BlockSize - 1,
               Len(magicBytes) + BlockSize + 3}}
    \cup {<<88>> \o Ramp(2 * BlockSize + 8, 3, 7),
          magicBytes \o Repeat(0, BlockSize) \o magicBytes \o Ramp(5, 3, 7)}

\* engine.key is the key given to EncryptStream, call.key the key given to
\* DecryptStream
InitCTR ==
    /\ engine \in {[type |-> "ctr", key |-> k, iv |-> NilBytes, gcm |-> FALSE] : k \in CTRKeys}
    /\ call = NoCall
    /\ cerr = Nil
    /\ op = "none"
    /\ pc = "idle"
    /\ src = bytesReader(<<>>)
    /\ dst = bytesBuffer
    /\ reader = NoReader
    /\ nonce = NilBytes
    /\ ret = Running
    /\ plain = NilBytes
    /\ input = NilBytes
    /\ tampered = FALSE
    /\ OthersIdle

CTREncryptStream ==
    /\ pc = "idle"
    /\ engine.type = "ctr"
    /\ \E n \in {0, 1, BlockSize, MaxCTRLen} : \E s \in SourcesOf(Ramp(n, 7, 5)) :
       \E d \in Sinks : \E iv \in CTRIVs :
         LET e == ctrEncryptStream(engine.key, iv, s, d) IN
         /\ op' = "EncryptStream"
         /\ plain' = s.data
         /\ nonce' = iv
         /\ src' = e.src
         /\ dst' = e.dst
         /\ ret' = e.ret
         /\ pc' = "returned"
    /\ UNCHANGED <<call, engine, cerr, reader, input, tampered>>
    /\ UNCHANGED others

\* DecryptStream(key, src, dst) with any key, on what EncryptStream wrote
\* or on a stream of its own
CTRDecryptStream ==
    /\ engine.type = "ctr"
    /\ \/ pc = "idle" /\ input' \in RawCTRStreams
       \/ pc = "returned" /\ op = "EncryptStream" /\ ret = Nil /\ input' = dst.out
    /\ \E k \in CTRKeys : \E d \in Sinks : \E f \in BOOLEAN :
         LET s == IF f THEN failingSource(input', ErrUnexpectedEOF, FALSE)
                  ELSE bytesReader(input')
             e == ctrDecryptStream(k, s, d)
         IN  /\ call' = [ctor |-> "DecryptStream", suite |-> "", key |-> k, iv |-> NilBytes]
             /\ op' = "DecryptStream"
             /\ src' = e.src
             /\ dst' = e.dst
             /\ ret' = e.ret
             /\ pc' = "returned"
    /\ UNCHANGED <<engine, cerr, reader, nonce, plain, tampered>>
    /\ UNCHANGED others

NextCTR ==
    \/ CTREncryptStream
    \/ CTRDecryptStream

SpecCTR == InitCTR /\ [][NextCTR]_vars

-----------------------------------------------------------------------------
(* Properties. *)

\* strings.Contains(s, t)
Contains(s, t) == \E i \in 0..(Len(s) - Len(t)) : SubSeq(s, i + 1, i + Len(t)) = t

\* C1 -- CBC round trip.  With a key of 16, 24 or 32 bytes and a 16-byte IV,
\* EncryptStream from an in-memory source into a sink that takes every Write
\* returns nil, and DecryptStream on the bytes it produced, again into a sink
\* that takes every Write, returns nil and has written exactly the plaintext,
\* whatever its length (empty, one byte, one block, several blocks, not a
\* multiple of the block size, several turns of io.Copy).
C1_CBCRoundTrip ==
    /\ (engine.type = "cbcCipher" /\ op = "EncryptStream" /\ pc = "returned"
          /\ src.err = EOF /\ dst.okWrites = -1)
       => ret = Nil
    /\ (engine.type = "cbcCipher" /\ op = "DecryptStream" /\ pc = "returned"
          /\ plain # NilBytes /\ dst.okWrites = -1)
       => (ret = Nil /\ dst.out = plain)

\* a plaintext of several io.Copy turns has come back through a bytes.Buffer
C1_Witness ==
    /\ engine.type = "cbcCipher" /\ op = "DecryptStream" /\ pc = "returned"
    /\ Len(engine.key) = 24
    /\ plain = Ramp(2 * MinRead + BlockSize + 1, 7, 5)
    /\ dst.kind = "Buffer" /\ ret = Nil /\ dst.out = plain

\* C2 -- AEAD single-shot round trip.  With a key of 16, 24 or 32 bytes,
\* gcmContentCipher.EncryptStream from an in-memory source into a sink that
\* takes every Write returns nil, and DecryptStream on its untouched output
\* returns nil and has written exactly the plaintext, whatever its length.
C2_GCMRoundTrip ==
    /\ (engine.type = "gcmContentCipher" /\ op = "EncryptStream" /\ pc = "returned"
          /\ src.err = EOF /\ dst.okWrites = -1)
       => ret = Nil
    /\ (engine.type = "gcmContentCipher" /\ op = "DecryptStream" /\ pc = "returned"
          /\ plain # NilBytes /\ ~tampered /\ dst.okWrites = -1)
       => (ret = Nil /\ dst.out = plain)

\* the empty plaintext has come back: the stream was a nonce and a tag
C2_Witness ==
    /\ engine.type = "gcmContentCipher" /\ op = "DecryptStream" /\ pc = "returned"
    /\ plain = <<>> /\ ~tampered
    /\ Len(input) = NonceSize + TagSize
    /\ ret = Nil /\ dst.out = <<>>

\* C3 -- AEAD tamper detection.  When one bit of the sealed ciphertext or of
\* the tag of an EncryptStream output has been changed, DecryptStream returns
\* the authentication error of gcm.Open and the sink holds no byte, whatever
\* the sink is; it never returns nil and never writes plaintext.
C3_TamperDetected ==
    (engine.type = "gcmContentCipher" /\ op = "DecryptStream" /\ tampered)
    => /\ dst.out = <<>>
       /\ pc = "returned" => ret = ErrAuth

\* a flipped bit in the ciphertext body of a plaintext longer than a block
C3_Witness ==
    /\ engine.type = "gcmContentCipher" /\ op = "DecryptStream" /\ pc = "returned"
    /\ tampered /\ ret = ErrAuth
    /\ Len(plain) = BlockSize + 1
    /\ \E i \in 1..Len(plain) :
         input[NonceSize + i] # gcmSeal(engine.key, nonce, plain)[i]

\* C4 -- key-length validation.  When the key is nil or not 16, 24 or 32 bytes
\* long, NewCipher (for AES256GCM and for AES256CBC), NewGCMContentCipher and
\* NewCBCCipher return an error and no engine, and no stream method has run:
\* the source and the sink are as they were.
C4_KeyLengthValidated ==
    (pc # "new" /\ call.suite \in {AES256GCM, AES256CBC}
       /\ len(call.key) \notin {16, 24, 32})
    => /\ engine = NoEngine
       /\ cerr # Nil
       /\ op = "none"
       /\ src = bytesReader(<<>>)
       /\ dst = bytesBuffer

\* NewCipher has turned down a 31-byte key for AES256CBC with a good IV
C4_Witness ==
    /\ pc = "idle" /\ call.ctor = "NewCipher" /\ call.suite = AES256CBC
    /\ call.key = Repeat(0, 31) /\ call.iv = Repeat(0, BlockSize)
    /\ engine = NoEngine /\ cerr = ErrInvalidKeySize

\* C5 as stated -- NewCBCCipher returns "IV length must equal block size" and
\* no engine whenever the IV is nil or not 16 bytes long, and returns "invalid
\* key size" whenever the key is nil or not 16, 24 or 32 bytes long.
C5_AsStated ==
    (pc # "new" /\ call.ctor = "NewCBCCipher")
    => /\ len(call.iv) # 16 => (cerr = ErrIVLength /\ engine = NoEngine)
       /\ len(call.key) \notin {16, 24, 32} => cerr = ErrInvalidKeySize

\* C5 -- CBC constructor validation.  NewCBCCipher returns no engine and one
\* of the two errors whenever the key or the IV is bad: "IV length must equal
\* block size" for a bad IV with a good key, "invalid key size" for a bad key
\* with a good IV, and when both are bad the first of: nil key, nil IV, key
\* length, IV length.  With a good key and a good IV it returns an engine.
C5_CBCValidation ==
    (pc # "new" /\ call.ctor = "NewCBCCipher")
    => LET badKey == len(call.key) \notin {16, 24, 32}
           badIV  == len(call.iv) # 16
       IN  /\ (badKey \/ badIV)
              => (engine = NoEngine /\ cerr \in {ErrInvalidKeySize, ErrIVLength})
           /\ (badIV /\ ~badKey) => cerr = ErrIVLength
           /\ (badKey /\ ~badIV) => cerr = ErrInvalidKeySize
           /\ (badKey /\ badIV)
              => cerr = IF call.key = NilBytes THEN ErrInvalidKeySize
                        ELSE IF call.iv = NilBytes THEN ErrIVLength
                        ELSE ErrInvalidKeySize
           /\ (~badKey /\ ~badIV)
              => (engine.type = "cbcCipher" /\ engine.key = call.key
                    /\ engine.iv = call.iv /\ cerr = Nil)

\* a 15-byte key with a nil IV is turned down for its IV
C5_Witness ==
    /\ pc = "idle" /\ call.ctor = "NewCBCCipher"
    /\ call.key = Repeat(0, 15) /\ call.iv = NilBytes
    /\ engine = NoEngine /\ cerr = ErrIVLength

\* C6 -- unsupported suite.  For every suite other than AES256GCM and
\* AES256CBC, NewCipher returns no engine and an error that contains the suite
\* it turned down.
C6_ErrorCarriesSuite ==
    (pc # "new" /\ call.ctor = "NewCipher" /\ call.suite \notin {AES256GCM, AES256CBC})
    => /\ engine = NoEngine
       /\ cerr # Nil
       /\ Contains(cerr, call.suite)

\* C7 -- CBC decryption of invalid padding.  For an in-memory stream made of
\* an IV and one or more whole blocks whose last decrypted byte is 0 or more
\* than the block size, DecryptStream returns an error: it neither returns nil
\* nor panics.
C7_InvalidPaddingFails ==
    (engine.type = "cbcCipher" /\ op = "DecryptStream" /\ pc = "returned"
       /\ plain = NilBytes /\ src.err = EOF /\ dst.okWrites = -1
       /\ Len(input) >= 2 * BlockSize /\ Len(input) % BlockSize = 0)
    => LET body == cbcDecryptBlocks(engine.key, Take(input, BlockSize),
                                    Drop(input, BlockSize)).out
           last == body[Len(body)]
       IN  (last = 0 \/ last > BlockSize) => ret \notin {Nil, Panic}

C9_ShortHeaderFails ==
    (op = "DecryptStream"
       /\ Len(input) < IF engine.type = "cbcCipher" THEN 16 ELSE 12)
    => /\ pc = "returned"
       /\ ret \in {EOF, ErrUnexpectedEOF}
       /\ src.err = EOF => ret = IF Len(input) = 0 THEN EOF ELSE ErrUnexpectedEOF
       /\ dst.out = <<>>

\* gcmContentCipher.DecryptStream has turned down an in-memory stream of 11 bytes
C9_Witness ==
    /\ engine.type = "gcmContentCipher" /\ op = "DecryptStream" /\ pc = "returned"
    /\ Len(input) = NonceSize - 1 /\ src.err = EOF
    /\ ret = ErrUnexpectedEOF /\ dst.out = <<>>

\* C10 -- CBC wire format.  EncryptStream writes the engine's IV to the sink
\* before anything else; when it returns nil for a plaintext of length L the
\* sink holds 16 + 16 * (L \div 16 + 1) bytes, the first 16 of them the IV.
\* DecryptStream takes exactly the first 16 bytes of its stream as the IV and
\* leaves the rest in the source.
C10_CBCWireFormat ==
    /\ [](/\ (engine.type = "cbcCipher" /\ op = "EncryptStream" /\ dst.out # <<>>)
             => Take(dst.out, 16) = engine.iv
          /\ (engine.type = "cbcCipher" /\ op = "EncryptStream" /\ pc = "returned"
                /\ ret = Nil)
             => Len(dst.out) = 16 + 16 * ((Len(plain) \div 16) + 1))
    /\ [][/\ (engine.type = "cbcCipher" /\ pc = "idle" /\ op' = "EncryptStream"
                /\ pc' = "copy")
             => dst'.out = engine.iv
          /\ (engine.type = "cbcCipher" /\ op' = "DecryptStream" /\ op # "DecryptStream"
                /\ pc' = "copy")
             => /\ reader'.chain = Take(input', 16)
                /\ src'.data = Drop(input', 16)
                /\ reader'.buf = <<>>]_vars

\* the 14 bytes of "Hello, Walrus!" have become 32 bytes
C10_Witness ==
    /\ engine.type = "cbcCipher" /\ op = "EncryptStream" /\ pc = "returned"
    /\ ret = Nil /\ Len(plain) = 14
    /\ Len(dst.out) = 32 /\ Take(dst.out, 16) = engine.iv

\* C11 -- padding rule.  Pad(data, total) returns data followed by exactly
\* k = 16 - (total mod 16) bytes, each of value k, with 1 <= k <= 16; when
\* total is a multiple of 16, zero included, that is a whole block of sixteen
\* bytes of value 16; the bytes of data are as they were.
C11_PaddingRule ==
    (padder.fn = "Pad" /\ padder.done)
    => LET k == 16 - (padder.size % 16)
           n == Len(padder.data)
       IN  /\ k \in 1..16
           /\ padder.size % 16 = 0 => k = 16
           /\ Len(padder.out) = n + k
           /\ \A i \in 1..n : padder.out[i] = padder.data[i]
           /\ \A i \in (n + 1)..(n + k) : padder.out[i] = k

\* a whole block of 16s has been added to the empty data of an empty stream
C11_Witness ==
    /\ padder.fn = "Pad" /\ padder.done
    /\ padder.data = <<>> /\ padder.size = 0
    /\ padder.out = Repeat(16, 16)

\* C12 -- unpad.  Unpad of zero-length data returns an empty result and no
\* error; Unpad of non-empty data whose last byte is k returns the data
\* without its last k bytes.
C12_UnpadRemovesK ==
    (padder.fn = "Unpad" /\ padder.done)
    => LET n == Len(padder.data) IN
       /\ ~padder.panic
       /\ n = 0 => padder.out = <<>>
       /\ n > 0 => /\ Len(padder.out) = n - padder.data[n]
                   /\ \A i \in 1..Len(padder.out) : padder.out[i] = padder.data[i]

\* C13 -- padding is stripped from the final block only.  In every run of
\* cbcCipher.DecryptStream, however the source splits its bytes, Unpad is
\* called at most once, after the source has reported io.EOF and when no
\* byte is left in the source or in the carry buffer, on at most one block;
\* for an IV followed by whole blocks that is the decryption of the last
\* block, and a run that returns nil has called it.
C13_UnpadOnlyFinalBlock ==
    (engine.type = "cbcCipher" /\ op = "DecryptStream")
    => /\ Len(unpads) <= 1
       /\ Len(unpads) = 1 => pc = "returned"
       /\ (pc = "returned" /\ ret = Nil) => Len(unpads) = 1
       /\ \A i \in 1..Len(unpads) :
            LET u    == unpads[i]
                body == Drop(input, 16)
            IN  /\ u.eof
                /\ u.rest = 0
                /\ Len(u.data) <= 16
                /\ (Len(body) > 0 /\ Len(body) % 16 = 0)
                   => u.data = BlockAt(cbcDecryptBlocks(engine.key, Take(input, 16),
                                                        body).out,
                                       Len(body) \div 16)

\* Unpad has been called on the last of nineteen blocks that came five bytes
\* at a time
C13_Witness ==
    /\ engine.type = "cbcCipher" /\ op = "DecryptStream" /\ pc = "returned"
    /\ src.step = 5 /\ Len(input) = 16 + 19 * 16
    /\ Len(unpads) = 1 /\ Len(unpads[1].data) = 16

\* C14 -- CBC decryption does not depend on how the source splits its bytes.
\* For the output of EncryptStream and every source that delivers it (at most
\* 1, 5, 16 or 17 bytes to a Read, with or without Reads of zero bytes in
\* between, io.EOF with the last bytes or after them), DecryptStream returns
\* what it returns, and writes what it writes, when the source hands over
\* everything in one Read.
C14_DecryptChunkingIndependent ==
    (engine.type = "cbcCipher" /\ op = "DecryptStream" /\ pc = "returned"
       /\ plain # NilBytes)
    => LET one == DecryptInOneRead(engine, input)
       IN  ret = one.ret /\ dst.out = one.dst.out

\* C15 -- CBC encryption does not depend on how the source splits its bytes.
\* For every plaintext and every source that delivers it (as in C14),
\* EncryptStream into a sink that takes every Write, read through a buffer of
\* 512 bytes or more, returns nil and has written the bytes it writes when
\* the source hands over everything in one Read.
C15_EncryptChunkingIndependent ==
    (engine.type = "cbcCipher" /\ op = "EncryptStream" /\ pc = "returned")
    => LET one == EncryptInOneRead(engine, plain)
       IN  ret = Nil /\ one.ret = Nil /\ dst.out = one.dst.out

\* a plaintext of exactly one block has arrived a byte at a time, the last
\* byte together with io.EOF
C15_Witness ==
    /\ engine.type = "cbcCipher" /\ op = "EncryptStream" /\ pc = "returned"
    /\ src.step = 1 /\ src.eager /\ Len(plain) = BlockSize
    /\ ret = Nil /\ Len(dst.out) = 3 * BlockSize


\* C16 -- per-chunk nonce uniqueness.  Within one call of the chunked
\* EncryptStream no two Seal operations use the same nonce under the key of
\* the engine (and so DecryptStream, which has to derive the same nonces in
\* the same order, never opens two chunks with one nonce either).  The code
\* seals every chunk with the one nonce it wrote in front of the stream.
C16_NonceUniquePerChunk ==
    \A i \in DOMAIN seals : \A j \in DOMAIN seals : i # j => seals[i] # seals[j]

\* C17 -- no stuck producer.  Once EncryptStream or DecryptStream of the pipe
\* engine has returned, its producer goroutine has ended or can still take a
\* step: it is never left in a pw.Write that nothing will end.  The code
\* returns the error of io.Copy without closing pr.
C17_NoStuckProducer ==
    (pc = "returned" /\ ppc # "none") => (\/ ppc = "done"
         \/ ENABLED (PipeEncryptProducer \/ PipeDecryptProducer \/ PipeProducerResume))

\* C18 -- pipe hand-off: order and errors.  The sink holds, in order, a prefix
\* of what the producer gave to the pipe (after the nonce, for EncryptStream),
\* and a call during which a Read of the source, an Open or a Write to the
\* sink returned an error returns a non-nil error, the first of them.
C18_OrderAndFirstError ==
    /\ ppc # "none" =>
          LET all == (IF op = "EncryptStream" THEN nonce ELSE <<>>) \o sent IN
          /\ Len(dst.out) <= Len(all)
          /\ dst.out = Take(all, Len(dst.out))
    /\ (pc = "returned" /\ firstErr # Nil) => (ret # Nil /\ Contains(ret, firstErr))

\* C19 -- retry until success.  For a request whose body, if it has one, can
\* be read: a Client with a single endpoint that answers
\* non-200 (or fails) on its first k-1 requests and 200 on the k-th, with
\* 1 <= k <= MaxRetries + 1: doWithRetry, in either version, never sends the
\* endpoint more than k requests, can always go on until it returns, and
\* returns the 200 response and no error after exactly k requests.
C19_RetryUntilSuccess ==
    LET k == client.urls[1].okAt IN
    (/\ Len(client.urls) = 1
     /\ k >= 1
     /\ k <= client.maxRetries + 1
     /\ reqBody.err = EOF) =>
        /\ hits[1] <= k
        /\ rpc # "returned" => ENABLED NextRetry
        /\ rpc = "returned" =>
              /\ resp = [status |-> StatusOK, from |-> 1]
              /\ rerr = Nil
              /\ hits[1] = k

\* a call that returned the 200 of the third request to a single endpoint,
\* the last attempt that MaxRetries = 2 allows
C19_Witness ==
    /\ rpc = "returned"
    /\ client.variant = "roundRobin"
    /\ Len(client.urls) = 1
    /\ client.urls[1].okAt = 3
    /\ client.maxRetries = 2
    /\ hits = <<3>>
    /\ sleeps = 2
    /\ resp.status = StatusOK

\* C20 -- endpoint failover.  A Client of the round-robin version with
\* MaxRetries >= 0 and a list of endpoints of which some always fail and at
\* least one answers 200: doWithRetry returns a 200 response of a healthy
\* endpoint and no error.  The code makes MaxRetries + 1 requests in all, so
\* it gives up before it reaches a healthy endpoint that many places down
\* the list.
C20_EndpointFailover ==
    LET n       == Len(client.urls)
        healthy == {i \in 1..n : client.urls[i].okAt = 1}
        failing == {i \in 1..n : client.urls[i].okAt = 0}
    IN
    (/\ client.variant = "roundRobin"
     /\ client.maxRetries >= 0
     /\ healthy # {}
     /\ failing # {}
     /\ healthy \cup failing = 1..n
     /\ rpc = "returned") =>
        /\ rerr = Nil
        /\ resp.status = StatusOK
        /\ resp.from \in healthy

\* C26 -- encrypt carry buffer bound.  While EncryptStream is copying, i.e.
\* after every Read of cbcEncryptReader that did not report end-of-stream or
\* an error, the carry buffer holds fewer than blockSize bytes.  The code
\* emits len(data) / blockSize blocks when the buffer holds more than
\* len(data) bytes, which leaves a whole block behind when len(data) is not a
\* multiple of the block size.
C26_EncryptCarryBelowBlock ==
    (op = "EncryptStream" /\ pc = "copy") => Len(reader.buf) < BlockSize

\* C27 -- decrypt look-ahead is one block.  While DecryptStream is copying,
\* i.e. after every Read of cbcDecryptReader that did not report
\* end-of-stream or an error, the carry buffer holds fewer than 2 * blockSize
\* bytes.  The code holds back blockSize blocks (nBlocks -= blockSize), not
\* one.
C27_DecryptLookAheadOneBlock ==
    (op = "DecryptStream" /\ pc = "copy") => Len(reader.buf) < 2 * BlockSize

\* C28 -- Unpad is total and deterministic.  Every call of Unpad, whatever
\* the bytes it is given, returns (a result or an error) without an
\* out-of-range slice, and what it returns is a function of its input.  The
\* code slices data[:length-padding] without comparing padding to length.
C28_UnpadTotal ==
    (padder.fn = "Unpad" /\ padder.done)
    => /\ ~padder.panic
       /\ \A d \in UnpadData : d = padder.data => Unpad(d).out = padder.out

\* C29 -- termination.  While EncryptStream or DecryptStream of cbcCipher is
\* copying from a finite source into a sink that takes every Write, the next
\* Read of its stream reader, whatever len(data) io.Copy gives it, ends the
\* call (end-of-stream, an error or a crash) or strictly lowers a measure of
\* what is left to do: three times the bytes the source still holds, plus
\* the empty Reads it still owes, plus the bytes of the carry buffer.  Once
\* the source reports end-of-stream the Read ends the call or strictly
\* shrinks the carry buffer.
C29_Terminates ==
    (pc = "copy" /\ engine.type = "cbcCipher") =>
        \A dataLen \in ReadLens(dst) :
            LET rr  == IF op = "EncryptStream"
                       THEN cbcEncryptReaderRead(engine.key, reader, src, dataLen)
                       ELSE cbcDecryptReaderRead(engine.key, reader, src, dataLen)
                left(s, r) == 3 * Len(s.data) + s.wait + Len(r.buf)
                ends == rr.panic \/ rr.err # Nil
            IN  /\ ends \/ left(rr.src, rr.reader) < left(src, reader)
                /\ (Len(src.data) = 0 /\ src.wait = 0) =>
                      (ends \/ Len(rr.reader.buf) < Len(reader.buf))

\* a DecryptStream whose source has reported end-of-stream, that has written
\* blocks and still holds the last block in its carry buffer
C29_Witness ==
    /\ op = "DecryptStream"
    /\ pc = "copy"
    /\ Len(src.data) = 0
    /\ src.step > 0
    /\ Len(reader.buf) = BlockSize
    /\ Len(dst.out) >= 2 * BlockSize

\* C30 -- chunked AEAD round trip under any source chunking.  DecryptStream
\* of the pipe engine, given all the bytes that EncryptStream wrote for the
\* plaintext P, from a source that ends in EOF and into a sink that takes
\* every Write, returns nil and has written exactly P, however the plaintext
\* source split P across its Reads.  The code seals one chunk per Read of the
\* plaintext source but opens one chunk per 32 KiB + 16 of the stream.
C30_ChunkedRoundTrip ==
    (/\ op = "DecryptStream"
     /\ ppc # "none"
     /\ plain # NilBytes
     /\ src.err = EOF
     /\ dst.okWrites = -1
     /\ pc = "returned") => (ret = Nil /\ dst.out = plain)

\* C21 -- request body preservation.  Every httpClient.Do that doWithRetry
\* makes, the first and every retry, on every endpoint, is given a request
\* whose body is the whole body the request came with, byte for byte (and no
\* body when it came with none); each request an endpoint receives is one of
\* them.
C21_BodyPreserved ==
    /\ \A i \in DOMAIN sentBodies : sentBodies[i] = reqBytes
    /\ rpc # "none" =>
          Len(sentBodies)
            = Cardinality(UNION {{<<i, k>> : k \in 1..hits[i]} : i \in DOMAIN hits})

\* a call that sent a three-byte body four times, to two endpoints in turn
C21_Witness ==
    /\ rpc = "returned"
    /\ client.variant = "roundRobin"
    /\ reqBytes = <<7, 8, 9>>
    /\ hits = <<2, 2>>
    /\ Len(sentBodies) = 4

\* C23 -- configuration errors are never raised mid-stream.  Whichever
\* constructor made the CBC engine, the validating NewCBCCipher or the one of
\* the StreamCipher interface that validates nothing, a key that is not 16,
\* 24 or 32 bytes long or an IV that is not 16 bytes long is turned down at
\* construction, or else EncryptStream returns an error (it does not crash)
\* with the sink still empty and the source unread.  The unvalidated engine
\* writes its IV and then crashes in cipher.NewCBCEncrypter.
C23_ConfigErrorsNotMidStream ==
    (/\ pc # "new"
     /\ call.ctor \in {"NewCBCCipher", "StreamCipher.NewCBCCipher"}
     /\ (len(call.key) \notin {16, 24, 32} \/ len(call.iv) # BlockSize))
    => \/ engine = NoEngine /\ cerr # Nil /\ op = "none"
       \/ engine # NoEngine /\ op = "none"
       \/ /\ op = "EncryptStream"
          /\ ret \notin {Panic, Running, Nil}
          /\ dst.out = <<>>
          /\ src = bytesReader(plain)

\* C22 -- encryption configuration errors stop a store before any network
\* traffic.  When Store or StoreFromReader is called with
\* StoreOptions.Encryption set and the key is empty, or the mode is CBC and
\* there is no IV, or the mode is unknown, or the cipher is built and the key
\* is not 16, 24 or 32 bytes long, doWithRetry is never entered and no
\* publisher receives a request, and the call returns an error: "encryption
\* key is required", "IV is required for CBC mode" and "unsupported
\* encryption mode: <mode>" under "failed to create cipher: ", the key size
\* error of crypto/aes under "failed to encrypt data: ".
C22_ConfigErrorBeforeRequest ==
    LET o == store.opts
        noKey  == len(o.Key) = 0
        noIV   == ~noKey /\ o.Mode = "CBC" /\ len(o.IV) = 0
        noMode == ~noKey /\ o.Mode \notin {"CBC", "GCM", ""}
        badKey == ~noKey /\ ~noIV /\ ~noMode /\ len(o.Key) \notin {16, 24, 32}
    IN  (store.fn \in {"Store", "StoreFromReader(reader, opts)"} /\ o.set
         /\ (noKey \/ noIV \/ noMode \/ badKey))
        => /\ rpc = "none"
           /\ sentBodies = <<>>
    /\ reqPath = "/v1/store?epochs=1"
    /\ targets = <<>>
           /\ \A i \in DOMAIN hits : hits[i] = 0
           /\ spc \in {"call", "returned"}
           /\ spc = "returned" =>
                sresult.err =
                    IF noKey THEN "failed to create cipher: encryption key is required"
                    ELSE IF noIV THEN "failed to create cipher: IV is required for CBC mode"
                    ELSE IF noMode
                    THEN "failed to create cipher: unsupported encryption mode: " \o o.Mode
                    ELSE "failed to encrypt data: " \o ErrKeySize

\* a Store with an empty, non-nil key has returned, with publishers configured
C22_Witness ==
    /\ spc = "returned"
    /\ store.fn = "Store"
    /\ store.opts.set
    /\ store.opts.Key = <<>>
    /\ Len(client.urls) > 0
    /\ sresult.err # Nil

\* C24 -- NormalizeBlobResponse.  In the StoreResponse a store returns,
\* Blob.BlobID and Blob.EndEpoch are those of NewlyCreated.BlobObject (BlobID,
\* Storage.EndEpoch) when the publisher's answer has NewlyCreated, those of
\* AlreadyCertified when it has AlreadyCertified and no NewlyCreated, and those
\* the answer had in blobInfo when it has neither; normalising the returned
\* response once more changes nothing.
C24_NormalizeBlobResponse ==
    (store.fn # "ReadToReader" /\ spc = "returned" /\ sresult.err = Nil)
    => LET j == sresult.body
           r == sresult.resp
       IN  /\ j.NewlyCreated.set =>
                r.Blob = [BlobID   |-> j.NewlyCreated.BlobObject.BlobID,
                          EndEpoch |-> j.NewlyCreated.BlobObject.Storage.EndEpoch]
           /\ (j.AlreadyCertified.set /\ ~j.NewlyCreated.set) =>
                r.Blob = [BlobID   |-> j.AlreadyCertified.BlobID,
                          EndEpoch |-> j.AlreadyCertified.EndEpoch]
           /\ (~j.AlreadyCertified.set /\ ~j.NewlyCreated.set) => r.Blob = j.Blob
           /\ NormalizeBlobResponse(r) = r

\* a store has returned an answer with both NewlyCreated and AlreadyCertified
C24_Witness ==
    /\ store.fn # "ReadToReader"
    /\ spc = "returned"
    /\ sresult.err = Nil
    /\ sresult.body.NewlyCreated.set
    /\ sresult.body.AlreadyCertified.set
    /\ sresult.body.NewlyCreated.BlobObject.BlobID # sresult.body.AlreadyCertified.BlobID

\* C25 -- the limit for uploads of unknown length.  For a reader that
\* delivers its content without an error, StoreFromReader(reader,
\* contentLength, opts) with contentLength <= 0: content longer than MaxUnknownLengthUploadSize makes the call
\* return an error, without entering doWithRetry and without a request to any
\* publisher; content of at most that length goes out whole, in a request
\* whose ContentLength is the length of the content.  With contentLength > 0
\* the request is built whatever the length of the content, with that
\* ContentLength.
C25_UnknownLengthLimit ==
    LET content == store.reader.data
        limit   == client.MaxUnknownLengthUploadSize
    IN  (store.fn = "StoreFromReader(reader, contentLength, opts)"
         /\ store.reader.err = EOF)
        => IF store.contentLength <= 0 /\ Len(content) > limit
           THEN /\ rpc = "none"
                /\ sentBodies = <<>>
    /\ reqPath = "/v1/store?epochs=1"
    /\ targets = <<>>
                /\ \A i \in DOMAIN hits : hits[i] = 0
                /\ spc \in {"call", "returned"}
                /\ spc = "returned" => sresult.err # Nil
           ELSE spc # "call"
                => /\ contentLen = Len(content)
                   /\ reqBytes = content
                   /\ spc = "sending" \/ rpc = "returned"
                   /\ \A i \in DOMAIN sentBodies : sentBodies[i] = content
                   /\ (\E i \in DOMAIN client.urls : client.urls[i].okAt = 1)
                      => (rpc = "returned" => Len(sentBodies) > 0)

\* content longer than the limit has been refused, with publishers configured
C25_Witness ==
    /\ store.fn = "StoreFromReader(reader, contentLength, opts)"
    /\ store.contentLength <= 0
    /\ store.reader.err = EOF
    /\ Len(store.reader.data) > client.MaxUnknownLengthUploadSize
    /\ Len(client.urls) > 0
    /\ spc = "returned"

C32_PerURLSchedule ==
    (client.variant = "perURL" /\ client.maxRetries >= 0 /\ Len(client.urls) > 0
     /\ reqBody.err = EOF)
    => /\ \A k \in DOMAIN targets :
            targets[k].host = ((k - 1) \div (client.maxRetries + 1)) + 1
       /\ \A h \in DOMAIN hits : \A n \in 1..hits[h] :
            (endpointAnswer(client.urls[h], n).err = Nil
             /\ endpointAnswer(client.urls[h], n).status = StatusOK)
            => /\ h = targets[Len(targets)].host
               /\ n = hits[h]
               /\ rpc = "returned"
               /\ rerr = Nil
               /\ resp = [status |-> StatusOK, from |-> h]
       /\ (rpc = "returned" /\ rerr # Nil)
          => /\ Len(targets) = Len(client.urls) * (client.maxRetries + 1)
             /\ LET h == targets[Len(targets)].host
                    a == endpointAnswer(client.urls[h], hits[h])
                IN  rerr = "all retry attempts failed: "
                           \o (IF a.err # Nil THEN a.err
                               ELSE "request failed with status code " \o ToString(a.status))

\* two URLs, two attempts each, all failed
C32_Witness ==
    /\ client.variant = "perURL"
    /\ client.maxRetries = 1
    /\ Len(client.urls) = 2
    /\ rpc = "returned"
    /\ rerr # Nil
    /\ Len(targets) = 4

\* C33 -- doWithRetry always returns.  Whatever the URL list (empty included)
\* and MaxRetries (negative included), a call of either version of
\* doWithRetry that has ended has not crashed, and has returned a 200 response
\* with a nil error or no response with an error; and a call that has not
\* ended can take a step.
C33_AlwaysReturns ==
    /\ rpc = "returned"
       => /\ rerr # Panic
          /\ rerr = Nil => resp.status = StatusOK
          /\ rerr # Nil => resp.status = 0
    /\ rpc = "loop" => ENABLED (AttemptPerURL \/ AttemptRoundRobin)

\* C34 -- the target of each attempt.  Every request doWithRetry sends goes
\* to the base URL selected for that attempt followed by the path and query
\* the request came with ("/v1/store?epochs=1" here), whatever base URLs the
\* earlier attempts used and whether or not a base URL ends in a path.
C34_TargetIsBasePlusPath ==
    \A k \in DOMAIN targets :
        targets[k].path = client.urls[targets[k].host].prefix \o "/v1/store?epochs=1"

C36_NewGCMCipherWorks ==
    (call.ctor = "NewGCMCipher" /\ ValidKeyLen(len(call.key)) /\ pc # "new")
    => /\ engine.type = "gcmContentCipher"
       /\ \A n \in Nonces :
            gcmEncryptStreamBegin(engine, n, bytesBuffer)
              = gcmEncryptStreamBegin(NewGCMContentCipher(call.key).engine, n, bytesBuffer)
       /\ op = "EncryptStream" => ret # ErrGCMNotInitialized
       /\ \A x \in RawGCMStreams : gcmDecryptStreamBegin(engine, bytesReader(x)).ret # Panic

\* C37 -- ReadToReader does not leak the response body.  When ReadToReader
\* has returned after doWithRetry gave it a response, either the caller holds
\* resp.Body as the ReadCloser to close, or resp.Body has been closed.
C37_BodyNotLeaked ==
    (store.fn = "ReadToReader" /\ spc = "returned" /\ rerr = Nil)
    => (sresult.reader = "resp.Body" \/ bodyClosed)

\* C38 (as stated): DecryptStream called with a key different from the one
\* EncryptStream used returns ErrDecryption and writes no byte to the sink.
C38_AsStated ==
    (op = "DecryptStream" /\ pc = "returned" /\ nonce # NilBytes /\ call.key # engine.key)
    => (ret = ErrDecryption /\ dst.out = <<>>)

\* C38 (amended): with a key of 16, 24 or 32 bytes, DecryptStream called with
\* a key different from the one EncryptStream used, or on a stream that does
\* not start with the magic bytes or ends inside the header of magic bytes, IV
\* and verification bytes, returns ErrDecryption and writes no byte to the
\* sink; with a key of another length it writes no byte either and returns
\* ErrDecryption when the magic bytes are not there and the key size error
\* when they are; with the key EncryptStream used, a source that ends in EOF
\* and a sink that takes the write, DecryptStream(EncryptStream(P)) returns
\* nil and has written exactly P.
C38_WrongKeyDetected ==
    (op = "DecryptStream" /\ pc = "returned") =>
        LET hasMagic == Len(input) >= Len(magicBytes) /\ Take(input, Len(magicBytes)) = magicBytes
            short    == Len(input) < 2 * Len(magicBytes) + BlockSize
            rejected == ret = ErrDecryption /\ dst.out = <<>>
        IN  /\ (ValidKeyLen(Len(call.key)) /\ (~hasMagic \/ short)) => rejected
            /\ (ValidKeyLen(Len(call.key)) /\ nonce # NilBytes /\ call.key # engine.key)
                   => rejected
            /\ (~ValidKeyLen(Len(call.key)) /\ ~hasMagic) => rejected
            /\ (~ValidKeyLen(Len(call.key)) /\ hasMagic)
                   => (ret = ErrKeySize /\ dst.out = <<>>)
            /\ (nonce # NilBytes /\ call.key = engine.key /\ src.err = EOF /\ ~dst.failed)
                   => (ret = Nil /\ dst.out = plain)

\* DecryptStream with another key of an AES length, on what EncryptStream
\* wrote for a plaintext of more than a block, has returned ErrDecryption
C38_Witness ==
    /\ op = "DecryptStream"
    /\ pc = "returned"
    /\ nonce # NilBytes
    /\ Len(plain) > BlockSize
    /\ ValidKeyLen(Len(call.key))
    /\ call.key # engine.key
    /\ ret = ErrDecryption
    /\ dst.out = <<>>

=============================================================================
